---- MODULE Spec2Model ----
(***************************************************************************)
(* A model of comphardware: the unit normalisers, the fuzzy model matcher  *)
(* and the RAM clutter parser of src/comphardware/helpers.py, and the      *)
(* second copy of the normalisers in src/database-scripts/helpers.py.      *)
(*                                                                         *)
(* Python values are modelled as tagged records:                           *)
(*   None        [t |-> "None"]                                            *)
(*   int         [t |-> "int", neg |-> BOOLEAN, mag |-> decimal digits]    *)
(*   str         [t |-> "str", s |-> sequence of characters]               *)
(*   a raise     [t |-> "raise", exc |-> name of the exception]            *)
(* A Python int has no width, so its magnitude is kept as the sequence of  *)
(* its decimal digits, most significant first, zero being <<>>.            *)
(* A string is the sequence of its characters.                             *)
(***************************************************************************)
EXTENDS Integers, Sequences, FiniteSets, TLC

VARIABLES
    pc,             \* name of the function that returned last, or "idle"
    MODEL_TO_CPU,   \* comphardware.data.MODEL_TO_CPU: keys in dict order
    MODEL_TO_GPU,   \* comphardware.data.MODEL_TO_GPU: keys in dict order
    database,       \* _find_by_model argument: keys in dict order
    unexact_model,  \* _find_by_model / find_*_by_model argument
    component,      \* what the matcher returned
    value,          \* human_readable_to_* argument
    unit,           \* human_readable_to_* argument
    result,         \* what the converter returned
    cpu_clutter,    \* setup_from_clutter arguments
    gpu_clutter,
    ram_clutter,
    setup,          \* what setup_from_clutter returned
    record,         \* the CPU or GPU object constructed last
    records,        \* save_cpus / save_gpus argument
    cpu_database,   \* the file cpu-database.json
    gpu_database,   \* the file gpu-database.json
    loaded,         \* what load_cpus / load_gpus returned
    source,         \* convert-divinity76s-database: what download returned
    conv,           \* convert-divinity76s-database: what convert returned
    exit,           \* the exception that ended the script, or None
    _cached_cpu,    \* comphardware.helpers._cached_cpu
    _cached_gpu,    \* comphardware.helpers._cached_gpu
    machine,        \* what the probes find on this machine, or None
    force_no_window, \* user_gpu argument of the last call
    returned,       \* what user_cpu / user_gpu / user_setup returned or raised
    calls,          \* how many detection calls the process has made
    probes,         \* how often each probe and each matcher was started
    old_cpus,       \* update-cpu-database: the loaded CPUs
    collected,      \* intel_ark.parse: cpus; after the run, the saved list
    current_id,     \* intel_ark.parse: product_id of the loop
    response,       \* intel_ark.parse: what requests.get gave last
    requested,      \* how often each product ID was requested
    limited,        \* the product IDs whose response was rate limited
    slept,          \* seconds spent in time.sleep
    progress,       \* dogelog.progress
    interrupt,      \* where a keyboard interrupt arrived last, or "none"
    given_tables,   \* extract_gpus arguments
    given_models,
    given_vendor,
    extracted,      \* what extract_gpus returned or raised
    read_html,      \* update-gpu-database: what pd.read_html gave per vendor
    old_gpus,       \* update-gpu-database: the loaded GPUs
    new_gpus,       \* update-gpu-database: gpus, as it is saved
    mode,           \* dogelog.mode
    filterlevel,    \* dogelog.filterlevel
    logfile,        \* dogelog.logfile: None or the file object, File(i) for files[i]
    files,          \* the files init_file opened: whether open, and what the
                    \* last call of the logger wrote to it
    stdout,         \* what the last call of the logger wrote to sys.stdout;
                    \* the entries the database scripts log are left out
    stderr,         \* what the last call of the logger wrote to sys.stderr
    last_print_len, \* progress.last_print_len
    logged,         \* the message and level of the last call of log, or None
    last_init       \* the last call of an init function and whether it raised, or None

vars == <<pc, MODEL_TO_CPU, MODEL_TO_GPU, database, unexact_model, component,
          value, unit, result, cpu_clutter, gpu_clutter, ram_clutter, setup,
          record, records, cpu_database, gpu_database, loaded,
          source, conv, exit, _cached_cpu, _cached_gpu,
          machine, force_no_window, returned, calls, probes,
          old_cpus, collected, current_id, response, requested, limited, slept,
          progress, interrupt,
          given_tables, given_models, given_vendor, extracted, read_html,
          old_gpus, new_gpus,
          mode, filterlevel, logfile, files, stdout, stderr, last_print_len,
          logged, last_init>>

globalVars  == <<MODEL_TO_CPU, MODEL_TO_GPU>>
matchVars   == <<database, unexact_model, component>>
convVars    == <<value, unit, result>>
clutterVars == <<cpu_clutter, gpu_clutter, ram_clutter, setup>>
recordVars  == <<record, records, cpu_database, gpu_database, loaded>>
coreVars    == <<globalVars, matchVars, convVars, clutterVars>>
scriptVars  == <<source, conv, exit>>
arkVars     == <<old_cpus, collected, current_id, response, requested, limited,
                 slept, progress, interrupt>>
detectVars  == <<_cached_cpu, _cached_gpu, machine, force_no_window, returned,
                 calls, probes>>
wikiVars    == <<given_tables, given_models, given_vendor, extracted, read_html,
                 old_gpus, new_gpus>>
logVars     == <<mode, filterlevel, logfile, files, stdout, stderr,
                 last_print_len, logged, last_init>>
nonArkVars  == <<coreVars, detectVars, record, records, gpu_database, loaded,
                 source, conv, wikiVars, logVars>>

-----------------------------------------------------------------------------
(* Python values *)

None == [t |-> "None"]

PyStr(s) == [t |-> "str", s |-> s]

PyInt(neg, mag) == [t |-> "int", neg |-> neg /\ mag # <<>>, mag |-> mag]

Raise(exc) == [t |-> "raise", exc |-> exc]

RECURSIVE NatDigits(_)
NatDigits(n) == IF n = 0 THEN <<>> ELSE NatDigits(n \div 10) \o <<n % 10>>

\* the Python int written as the small literal n
IntLit(n) == IF n < 0 THEN PyInt(TRUE, NatDigits(-n)) ELSE PyInt(FALSE, NatDigits(n))

Front(s) == IF s = <<>> THEN <<>> ELSE SubSeq(s, 1, Len(s) - 1)

LastDigit(s) == IF s = <<>> THEN 0 ELSE s[Len(s)]

RECURSIVE StripZeros(_)
StripZeros(m) == IF m # <<>> /\ m[1] = 0 THEN StripZeros(Tail(m)) ELSE m

\* magnitude m times the digit-sized or small factor k, plus carry
RECURSIVE MulMag(_, _, _)
MulMag(m, k, carry) ==
    IF m = <<>> THEN NatDigits(carry)
    ELSE LET d == m[Len(m)] * k + carry
         IN  MulMag(Front(m), k, d \div 10) \o <<d % 10>>

RECURSIVE AddMag(_, _, _)
AddMag(a, b, carry) ==
    IF a = <<>> /\ b = <<>> THEN NatDigits(carry)
    ELSE LET s == LastDigit(a) + LastDigit(b) + carry
         IN  AddMag(Front(a), Front(b), s \div 10) \o <<s % 10>>

\* schoolbook product of two magnitudes
RECURSIVE TimesMag(_, _)
TimesMag(a, b) ==
    IF b = <<>> THEN <<>>
    ELSE StripZeros(AddMag(TimesMag(a, Front(b)) \o <<0>>,
                           MulMag(a, LastDigit(b), 0), 0))

\* Python's  x * y  for two ints; None * int raises TypeError
PyMul(x, y) ==
    IF x.t # "int" \/ y.t # "int" THEN Raise("TypeError")
    ELSE PyInt(x.neg # y.neg, TimesMag(x.mag, y.mag))

\* Python's  base ** exp  for a small non-negative literal exponent
RECURSIVE PyPow(_, _)
PyPow(base, exp) == IF exp = 0 THEN IntLit(1) ELSE PyMul(PyPow(base, exp - 1), base)

-----------------------------------------------------------------------------
(* str.casefold on the characters the model uses *)

casefold_char(c) ==
    CASE c = "A" -> "a" [] c = "B" -> "b" [] c = "C" -> "c" [] c = "D" -> "d"
      [] c = "E" -> "e" [] c = "F" -> "f" [] c = "G" -> "g" [] c = "H" -> "h"
      [] c = "I" -> "i" [] c = "J" -> "j" [] c = "K" -> "k" [] c = "L" -> "l"
      [] c = "M" -> "m" [] c = "N" -> "n" [] c = "O" -> "o" [] c = "P" -> "p"
      [] c = "Q" -> "q" [] c = "R" -> "r" [] c = "S" -> "s" [] c = "T" -> "t"
      [] c = "U" -> "u" [] c = "V" -> "v" [] c = "W" -> "w" [] c = "X" -> "x"
      [] c = "Y" -> "y" [] c = "Z" -> "z" [] OTHER -> c

casefold(s) == [i \in 1..Len(s) |-> casefold_char(s[i])]

-----------------------------------------------------------------------------
(* The unit normalisers of src/comphardware/helpers.py *)

\* mutant: the SI reading, powers of 1000 instead of 1024
human_readable_to_bytes_si(v, u) ==
    IF u.t # "str" THEN Raise("AttributeError")
    ELSE LET cu == casefold(u.s) IN
         IF cu = <<"b">> THEN v
         ELSE IF cu = <<"k","b">> \/ cu = <<"k","i","b">> THEN PyMul(v, IntLit(1000))
         ELSE IF cu = <<"m","b">> \/ cu = <<"m","i","b">> THEN PyMul(v, PyPow(IntLit(1000), 2))
         ELSE IF cu = <<"g","b">> \/ cu = <<"g","i","b">> THEN PyMul(v, PyPow(IntLit(1000), 3))
         ELSE IF cu = <<"t","b">> \/ cu = <<"t","i","b">> THEN PyMul(v, PyPow(IntLit(1000), 4))
         ELSE v

\* mutant: an unknown unit is an error instead of a pass-through
human_readable_to_bytes_strict(v, u) ==
    IF u.t # "str" THEN Raise("AttributeError")
    ELSE LET cu == casefold(u.s) IN
         IF cu = <<"b">> THEN v
         ELSE IF cu = <<"k","b">> \/ cu = <<"k","i","b">> THEN PyMul(v, IntLit(1024))
         ELSE IF cu = <<"m","b">> \/ cu = <<"m","i","b">> THEN PyMul(v, PyPow(IntLit(1024), 2))
         ELSE IF cu = <<"g","b">> \/ cu = <<"g","i","b">> THEN PyMul(v, PyPow(IntLit(1024), 3))
         ELSE IF cu = <<"t","b">> \/ cu = <<"t","i","b">> THEN PyMul(v, PyPow(IntLit(1024), 4))
         ELSE Raise("ValueError")

human_readable_to_bytes(v, u) ==
    IF u.t # "str" THEN Raise("AttributeError")
    ELSE LET cu == casefold(u.s) IN
         IF cu = <<"b">> THEN v
         ELSE IF cu = <<"k","b">> \/ cu = <<"k","i","b">> THEN PyMul(v, IntLit(1024))
         ELSE IF cu = <<"m","b">> \/ cu = <<"m","i","b">> THEN PyMul(v, PyPow(IntLit(1024), 2))
         ELSE IF cu = <<"g","b">> \/ cu = <<"g","i","b">> THEN PyMul(v, PyPow(IntLit(1024), 3))
         ELSE IF cu = <<"t","b">> \/ cu = <<"t","i","b">> THEN PyMul(v, PyPow(IntLit(1024), 4))
         ELSE v

\* mutant: the unit is compared as given, without casefold
human_readable_to_hertz_nofold(v, u) ==
    IF u.t # "str" THEN Raise("AttributeError")
    ELSE LET cu == u.s IN
         IF cu = <<"k","h","z">> THEN PyMul(v, PyPow(IntLit(10), 3))
         ELSE IF cu = <<"m","h","z">> THEN PyMul(v, PyPow(IntLit(10), 6))
         ELSE IF cu = <<"g","h","z">> THEN PyMul(v, PyPow(IntLit(10), 9))
         ELSE IF cu = <<"t","h","z">> THEN PyMul(v, PyPow(IntLit(10), 12))
         ELSE v

human_readable_to_hertz(v, u) ==
    IF u.t # "str" THEN Raise("AttributeError")
    ELSE LET cu == casefold(u.s) IN
         IF cu = <<"k","h","z">> THEN PyMul(v, PyPow(IntLit(10), 3))
         ELSE IF cu = <<"m","h","z">> THEN PyMul(v, PyPow(IntLit(10), 6))
         ELSE IF cu = <<"g","h","z">> THEN PyMul(v, PyPow(IntLit(10), 9))
         ELSE IF cu = <<"t","h","z">> THEN PyMul(v, PyPow(IntLit(10), 12))
         ELSE v

(* The copies in src/database-scripts/helpers.py *)

scripts_human_readable_to_bytes(v, u) ==
    IF u.t # "str" THEN Raise("AttributeError")
    ELSE LET cu == casefold(u.s) IN
         IF cu = <<"b">> THEN v
         ELSE IF cu = <<"k","b">> \/ cu = <<"k","i","b">> THEN PyMul(v, IntLit(1024))
         ELSE IF cu = <<"m","b">> \/ cu = <<"m","i","b">> THEN PyMul(v, PyPow(IntLit(1024), 2))
         ELSE IF cu = <<"g","b">> \/ cu = <<"g","i","b">> THEN PyMul(v, PyPow(IntLit(1024), 3))
         ELSE IF cu = <<"t","b">> \/ cu = <<"t","i","b">> THEN PyMul(v, PyPow(IntLit(1024), 4))
         ELSE v

scripts_human_readable_to_hertz(v, u) ==
    IF u.t # "str" THEN Raise("AttributeError")
    ELSE LET cu == casefold(u.s) IN
         IF cu = <<"k","h","z">> THEN PyMul(v, PyPow(IntLit(10), 3))
         ELSE IF cu = <<"m","h","z">> THEN PyMul(v, PyPow(IntLit(10), 6))
         ELSE IF cu = <<"g","h","z">> THEN PyMul(v, PyPow(IntLit(10), 9))
         ELSE IF cu = <<"t","h","z">> THEN PyMul(v, PyPow(IntLit(10), 12))
         ELSE v

-----------------------------------------------------------------------------
(* difflib.SequenceMatcher(b=unexact_model), as _find_by_model uses it:    *)
(* isjunk is None and autojunk keeps its default True, so in a second      *)
(* sequence of at least 200 items every item that occurs more than         *)
(* len(b) // 100 + 1 times is "popular" and is left out of the index b2j.  *)

AUTOJUNK_MIN_LEN == 200

Occurrences(b, c) == Cardinality({j \in 1..Len(b) : b[j] = c})

bpopular(b) ==
    IF Len(b) >= AUTOJUNK_MIN_LEN
    THEN {c \in {b[j] : j \in 1..Len(b)} : Occurrences(b, c) > Len(b) \div 100 + 1}
    ELSE {}

\* j2len[j] while row i of a is scanned: the length of the run of equal,
\* indexed items of a and b that ends at a[i], b[j]
RECURSIVE j2len(_, _, _, _, _)
j2len(a, b, popular, i, j) ==
    IF i = 0 \/ j = 0 THEN 0
    ELSE IF a[i] # b[j] \/ b[j] \in popular THEN 0
    ELSE j2len(a, b, popular, i - 1, j - 1) + 1

\* how far a block that starts at a[i], b[j] grows to the left
RECURSIVE ExtendLeft(_, _, _, _)
ExtendLeft(a, b, i, j) ==
    IF i > 1 /\ j > 1 /\ a[i - 1] = b[j - 1]
    THEN ExtendLeft(a, b, i - 1, j - 1) + 1 ELSE 0

\* how far a block whose next items are a[i], b[j] grows to the right
RECURSIVE ExtendRight(_, _, _, _)
ExtendRight(a, b, i, j) ==
    IF i <= Len(a) /\ j <= Len(b) /\ a[i] = b[j]
    THEN ExtendRight(a, b, i + 1, j + 1) + 1 ELSE 0

\* match[2] of SequenceMatcher.find_longest_match() for seq1 a and seq2 b
find_longest_match(a, b) ==
    LET popular == bpopular(b)
        ends == {ij \in (1..Len(a)) \X (1..Len(b)) :
                    a[ij[1]] = b[ij[2]] /\ b[ij[2]] \notin popular}
        k(ij) == j2len(a, b, popular, ij[1], ij[2])
    IN  IF ends = {} THEN ExtendRight(a, b, 1, 1)
        ELSE LET bestsize == CHOOSE n \in {k(ij) : ij \in ends} :
                                 \A ij \in ends : k(ij) <= n
                 \* the first row, then the first column, that reaches bestsize
                 longest == {ij \in ends : k(ij) = bestsize}
                 first == CHOOSE ij \in longest : \A o \in longest :
                              \/ ij[1] < o[1]
                              \/ ij[1] = o[1] /\ ij[2] <= o[2]
                 besti == first[1] - bestsize + 1
                 bestj == first[2] - bestsize + 1
             IN  bestsize + ExtendLeft(a, b, besti, bestj)
                          + ExtendRight(a, b, besti + bestsize, bestj + bestsize)

-----------------------------------------------------------------------------
(* The fuzzy model matcher.  A database is the sequence of its entries     *)
(* [key, rec] in the dict's iteration order, the keys pairwise distinct.   *)

Lookup(db, key) == db[CHOOSE i \in 1..Len(db) : db[i].key = key].rec

\* the for loop of _find_by_model from entry idx on
RECURSIVE find_loop(_, _, _, _, _)
find_loop(db, query, idx, current_score, exact_model) ==
    IF idx > Len(db) THEN exact_model
    ELSE LET match == find_longest_match(db[idx].key, query)
         IN  IF match > current_score
             THEN find_loop(db, query, idx + 1, match, PyStr(db[idx].key))
             ELSE find_loop(db, query, idx + 1, current_score, exact_model)

\* mutant: the query is casefolded
_find_by_model_casefolded(db, query) ==
    LET exact_model == find_loop(db, casefold(query), 1, 0, None)
    IN  IF exact_model = None THEN None ELSE Lookup(db, exact_model.s)

_find_by_model(db, query) ==
    LET exact_model == find_loop(db, query, 1, 0, None)
    IN  IF exact_model = None THEN None ELSE Lookup(db, exact_model.s)

find_cpu_by_model(cpus, model) == _find_by_model(cpus, model)

find_gpu_by_model(gpus, model) == _find_by_model(gpus, model)

-----------------------------------------------------------------------------
(* setup_from_clutter of src/comphardware/helpers.py *)

\* str.split(sep) for a one-character separator
RECURSIVE split(_, _)
split(s, sep) ==
    IF \A i \in 1..Len(s) : s[i] # sep THEN <<s>>
    ELSE LET i == CHOOSE n \in 1..Len(s) :
                      s[n] = sep /\ \A m \in 1..(n - 1) : s[m] # sep
         IN  <<SubSeq(s, 1, i - 1)>> \o split(SubSeq(s, i + 1, Len(s)), sep)

DigitChars == {"0", "1", "2", "3", "4", "5", "6", "7", "8", "9"}

\* str.isdigit
isdigit(part) == part # <<>> /\ \A i \in 1..Len(part) : part[i] \in DigitChars

digit_value(c) ==
    CASE c = "0" -> 0 [] c = "1" -> 1 [] c = "2" -> 2 [] c = "3" -> 3
      [] c = "4" -> 4 [] c = "5" -> 5 [] c = "6" -> 6 [] c = "7" -> 7
      [] c = "8" -> 8 [] c = "9" -> 9

\* int(part) for a string of decimal digits
int(part) == PyInt(FALSE, StripZeros([i \in 1..Len(part) |-> digit_value(part[i])]))

\* mutant: the loop without its break, so the rightmost integer part wins
RECURSIVE scan_parts_no_break(_, _)
scan_parts_no_break(parts, i) ==
    IF i > Len(parts) THEN <<None, None>>
    ELSE LET later == scan_parts_no_break(parts, i + 1)
         IN  IF later[1] # None THEN later
             ELSE IF isdigit(parts[i])
                  THEN <<int(parts[i]),
                         IF i = Len(parts) THEN PyStr(<<"b">>) ELSE PyStr(parts[i + 1])>>
                  ELSE later

\* the for loop over enumerate(ram_clutter): <<value, unit>> at the break,
\* <<None, None>> when the loop runs out
RECURSIVE scan_parts(_, _)
scan_parts(parts, i) ==
    IF i > Len(parts) THEN <<None, None>>
    ELSE IF isdigit(parts[i])
         THEN <<int(parts[i]),
                IF i = Len(parts) THEN PyStr(<<"b">>) ELSE PyStr(parts[i + 1])>>
         ELSE scan_parts(parts, i + 1)

\* mutant: the parsing without the try/except around it
parse_ram_unguarded(clutter) ==
    LET parts == split(casefold(clutter), " ")
        found == scan_parts(parts, 1)
    IN  human_readable_to_bytes(found[1], found[2])

\* the try block; the bare except turns every raise into ram = None
parse_ram(clutter) ==
    LET parts == split(casefold(clutter), " ")
        found == scan_parts(parts, 1)
        ram   == human_readable_to_bytes(found[1], found[2])
    IN  IF ram.t = "raise" THEN None ELSE ram

SystemSetup(cpu, gpu, ram) == [t |-> "SystemSetup", cpu |-> cpu, gpu |-> gpu, ram |-> ram]

\* a raise that left the try block would leave the function
setup_from_clutter(cpus, gpus, cpu, gpu, ram_text) ==
    LET cpu_found == find_cpu_by_model(cpus, cpu)
        gpu_found == find_gpu_by_model(gpus, gpu)
        ram       == parse_ram(ram_text)
    IN  IF ram.t = "raise" THEN ram ELSE SystemSetup(cpu_found, gpu_found, ram)

-----------------------------------------------------------------------------
(* The records of src/database-scripts/helpers.py.  A Python float is kept *)
(* as the exact fraction num / den of two magnitudes; the rounding of      *)
(* float arithmetic is left out.  Common trailing zeros of num and den are *)
(* cancelled, the fraction is not reduced any further.                     *)

RECURSIVE Frac(_, _)
Frac(num, den) ==
    IF num # <<>> /\ num[Len(num)] = 0 /\ den[Len(den)] = 0
    THEN Frac(Front(num), Front(den))
    ELSE [t |-> "float", num |-> num, den |-> den]

\* float(x) for a non-negative int
float(x) == Frac(x.mag, <<1>>)

\* the sum of the digit products that fall into column k of a times b
RECURSIVE ColumnSum(_, _, _, _)
ColumnSum(a, b, k, i) ==
    IF i > Len(a) THEN 0
    ELSE (IF k + 1 - i \in 1..Len(b) THEN a[i] * b[k + 1 - i] ELSE 0)
         + ColumnSum(a, b, k, i + 1)

RECURSIVE Carry(_, _)
Carry(columns, carry) ==
    IF columns = <<>> THEN NatDigits(carry)
    ELSE LET d == columns[Len(columns)] + carry
         IN  Carry(Front(columns), d \div 10) \o <<d % 10>>

\* the product of two long magnitudes, column by column
LongTimes(a, b) ==
    IF a = <<>> \/ b = <<>> THEN <<>>
    ELSE StripZeros(Carry([k \in 1..(Len(a) + Len(b) - 1) |-> ColumnSum(a, b, k, 1)], 0))

FracAdd(x, y) ==
    Frac(StripZeros(AddMag(LongTimes(x.num, y.den), LongTimes(y.num, x.den), 0)),
         LongTimes(x.den, y.den))

FracMul(x, y) == Frac(LongTimes(x.num, y.num), LongTimes(x.den, y.den))

FracDiv(x, y) == Frac(LongTimes(x.num, y.den), LongTimes(x.den, y.num))

\* the vendor the CPU scripts pass
Intel == <<"i", "n", "t", "e", "l">>

\* mutant: the core count measured against 16 cores instead of 8
CPU_sixteen_cores(model, product_id, vendor, corecount, corespeed) ==
    LET corescore  == FracDiv(float(corecount), Frac(<<1, 6>>, <<1>>))
        speedscore == FracDiv(float(corespeed),
                              FracMul(Frac(<<5, 3>>, <<1, 0>>),
                                      float(PyPow(IntLit(10), 9))))
    IN  [t |-> "CPU", model |-> model, product_id |-> product_id,
         vendor |-> vendor, corecount |-> corecount, corespeed |-> corespeed,
         score |-> FracDiv(FracMul(FracAdd(corescore, speedscore),
                                   Frac(<<1, 0, 0>>, <<1>>)),
                           Frac(<<2>>, <<1>>))]

\* CPU.__init__
CPU(model, product_id, vendor, corecount, corespeed) ==
    LET corescore  == FracDiv(float(corecount), Frac(<<8>>, <<1>>))
        speedscore == FracDiv(float(corespeed),
                              FracMul(Frac(<<5, 3>>, <<1, 0>>),
                                      float(PyPow(IntLit(10), 9))))
    IN  [t |-> "CPU", model |-> model, product_id |-> product_id,
         vendor |-> vendor, corecount |-> corecount, corespeed |-> corespeed,
         score |-> FracDiv(FracMul(FracAdd(corescore, speedscore),
                                   Frac(<<1, 0, 0>>, <<1>>)),
                           Frac(<<2>>, <<1>>))]

\* GPU.__init__
GPU(model, vendor, vram, corespeed, codename) ==
    LET vramscore      == FracDiv(float(vram),
                                  FracMul(Frac(<<1, 0>>, <<1>>),
                                          float(PyPow(IntLit(1024), 3))))
        corespeedscore == FracDiv(float(corespeed),
                                  FracMul(Frac(<<1, 4, 4, 0>>, <<1>>),
                                          float(PyPow(IntLit(10), 6))))
    IN  [t |-> "GPU", model |-> model, vendor |-> vendor, vram |-> vram,
         corespeed |-> corespeed, codename |-> codename,
         score |-> FracDiv(FracMul(FracAdd(vramscore, corespeedscore),
                                   Frac(<<1, 0, 0>>, <<1>>)),
                           Frac(<<2>>, <<1>>))]

-----------------------------------------------------------------------------
(* The JSON files written and read by src/database-scripts/helpers.py.     *)
(* A file is the sequence of the members of its top-level object, each a   *)
(* key text and the texts of the member's fields.                          *)

Missing == [t |-> "missing"]

JsonFile(members) == [t |-> "file", members |-> members]

digit_char(d) ==
    CASE d = 0 -> "0" [] d = 1 -> "1" [] d = 2 -> "2" [] d = 3 -> "3"
      [] d = 4 -> "4" [] d = 5 -> "5" [] d = 6 -> "6" [] d = 7 -> "7"
      [] d = 8 -> "8" [] d = 9 -> "9"

DigitText(mag) ==
    IF mag = <<>> THEN <<"0">> ELSE [i \in 1..Len(mag) |-> digit_char(mag[i])]

\* json.dump of an int, of a str without characters to escape, of a float
dump_int(x) == (IF x.neg THEN <<"-">> ELSE <<>>) \o DigitText(x.mag)

dump_str(s) == <<"\"">> \o s \o <<"\"">>

dump_float(x) == DigitText(x.num) \o <<"/">> \o DigitText(x.den)

\* json.load of a number text, of a string text, of a float text
load_int(text) ==
    IF text[1] = "-" THEN PyInt(TRUE, int(Tail(text)).mag) ELSE int(text)

load_str(text) == SubSeq(text, 2, Len(text) - 1)

load_float(text) ==
    LET parts == split(text, "/")
    IN  Frac(IF parts[1] = <<"0">> THEN <<>> ELSE int(parts[1]).mag,
             int(parts[2]).mag)

\* mutant: a key that is already there keeps its value
dict_set_keeps_value(d, key, val) ==
    IF \E i \in DOMAIN d : d[i].key = key
    THEN d
    ELSE Append(d, [key |-> key, val |-> val])

\* d[key] = val on a dict kept as the sequence of its items: a key that is
\* already there keeps its place and takes the new value
dict_set(d, key, val) ==
    IF \E i \in DOMAIN d : d[i].key = key
    THEN [i \in DOMAIN d |-> IF d[i].key = key THEN [key |-> key, val |-> val]
                                              ELSE d[i]]
    ELSE Append(d, [key |-> key, val |-> val])

\* a dict comprehension over the items, in their order
RECURSIVE dict_of(_)
dict_of(items) ==
    IF items = <<>> THEN <<>>
    ELSE dict_set(dict_of(Front(items)), items[Len(items)].key, items[Len(items)].val)

\* save_cpus: the file left at the path
save_cpus(cpus) ==
    LET conv_cpus == dict_of([i \in DOMAIN cpus |->
                        [key |-> cpus[i].model,
                         val |-> [product_id |-> cpus[i].product_id,
                                  vendor     |-> cpus[i].vendor,
                                  corecount  |-> cpus[i].corecount,
                                  corespeed  |-> cpus[i].corespeed,
                                  score      |-> cpus[i].score]]])
    IN  JsonFile([i \in DOMAIN conv_cpus |->
            [key |-> dump_str(conv_cpus[i].key),
             val |-> [product_id |-> dump_int(conv_cpus[i].val.product_id),
                      vendor     |-> dump_str(conv_cpus[i].val.vendor),
                      corecount  |-> dump_int(conv_cpus[i].val.corecount),
                      corespeed  |-> dump_int(conv_cpus[i].val.corespeed),
                      score      |-> dump_float(conv_cpus[i].val.score)]]])

\* mutant: the loader takes the score found in the file
load_cpus_stored_score(file) ==
    IF file = Missing THEN <<>>
    ELSE [i \in DOMAIN file.members |->
            LET model == load_str(file.members[i].key)
                specs == file.members[i].val
            IN  [CPU(model, load_int(specs.product_id), load_str(specs.vendor),
                     load_int(specs.corecount), load_int(specs.corespeed))
                 EXCEPT !.score = load_float(specs.score)]]

\* load_cpus: the list returned; a missing file gives the empty list
load_cpus(file) ==
    IF file = Missing THEN <<>>
    ELSE [i \in DOMAIN file.members |->
            LET model == load_str(file.members[i].key)
                specs == file.members[i].val
            IN  CPU(model, load_int(specs.product_id), load_str(specs.vendor),
                    load_int(specs.corecount), load_int(specs.corespeed))]

\* save_gpus
save_gpus(gpus) ==
    LET conv_gpus == dict_of([i \in DOMAIN gpus |->
                        [key |-> gpus[i].model,
                         val |-> [vendor    |-> gpus[i].vendor,
                                  vram      |-> gpus[i].vram,
                                  corespeed |-> gpus[i].corespeed,
                                  codename  |-> gpus[i].codename,
                                  score     |-> gpus[i].score]]])
    IN  JsonFile([i \in DOMAIN conv_gpus |->
            [key |-> dump_str(conv_gpus[i].key),
             val |-> [vendor    |-> dump_str(conv_gpus[i].val.vendor),
                      vram      |-> dump_int(conv_gpus[i].val.vram),
                      corespeed |-> dump_int(conv_gpus[i].val.corespeed),
                      codename  |-> dump_str(conv_gpus[i].val.codename),
                      score     |-> dump_float(conv_gpus[i].val.score)]]])

\* load_gpus
load_gpus(file) ==
    IF file = Missing THEN <<>>
    ELSE [i \in DOMAIN file.members |->
            LET model == load_str(file.members[i].key)
                specs == file.members[i].val
            IN  GPU(model, load_str(specs.vendor), load_int(specs.vram),
                    load_int(specs.corespeed), load_str(specs.codename))]

-----------------------------------------------------------------------------
(* The order of str values, which list.sort(key=...) sorts by *)

\* the characters of the model in code-point order
CodePoints ==
    <<" ", "-", "0", "1", "2", "3", "4", "5", "6", "7", "8", "9",
      "A", "B", "C", "D", "E", "F", "G", "H", "I", "J", "K", "L", "M",
      "N", "O", "P", "Q", "R", "S", "T", "U", "V", "W", "X", "Y", "Z",
      "a", "b", "c", "d", "e", "f", "g", "h", "i", "j", "k", "l", "m",
      "n", "o", "p", "q", "r", "s", "t", "u", "v", "w", "x", "y", "z">>

\* the rank of a character in that order
ord(c) == CHOOSE i \in DOMAIN CodePoints : CodePoints[i] = c

\* a < b for two str values
RECURSIVE str_lt(_, _)
str_lt(a, b) ==
    IF b = <<>> THEN FALSE
    ELSE IF a = <<>> THEN TRUE
    ELSE IF a[1] # b[1] THEN ord(a[1]) < ord(b[1])
    ELSE str_lt(Tail(a), Tail(b))

-----------------------------------------------------------------------------
(* src/database-scripts/convert-divinity76s-database.py.  A member of the  *)
(* source database is its key and the three fields convert reads; a field  *)
(* that is absent is None.                                                 *)

\* what a call gave back when it did not raise
Returned(v) == [t |-> "return", value |-> v]

SourceEntry(key, number, cores, frequency) ==
    [key |-> key, number |-> number, cores |-> cores, frequency |-> frequency]

\* int(text) and float(text) on a text of whole-number digits or a text
\* that is no number
number_of(text) == IF isdigit(text) THEN int(text) ELSE Raise("ValueError")

\* the body of the for loop for one member: a CPU, None at a continue
\* (ValueError and KeyError included), or the raise that leaves convert
convert_entry(e) ==
    IF number_of(e.key).t = "raise" THEN None
    ELSE IF e.number = None THEN None
    ELSE IF e.cores = None THEN None
    ELSE IF number_of(e.cores.s).t = "raise" THEN None
    ELSE IF e.frequency = None THEN None
    ELSE LET raw == split(e.frequency.s, " ")
         IN  IF number_of(raw[1]).t = "raise" THEN None
             ELSE IF Len(raw) < 2 THEN Raise("IndexError")
             ELSE CPU(e.number.s, number_of(e.key), Intel, number_of(e.cores.s),
                      scripts_human_readable_to_hertz(number_of(raw[1]), PyStr(raw[2])))

\* convert: the list of CPUs, or the raise that leaves it
convert(items) ==
    LET RECURSIVE loop(_, _)
        loop(i, cpus) ==
            IF i > Len(items) THEN Returned(cpus)
            ELSE LET cpu == convert_entry(items[i])
                 IN  IF cpu.t = "raise" THEN cpu
                     ELSE IF cpu = None THEN loop(i + 1, cpus)
                     ELSE loop(i + 1, Append(cpus, cpu))
    IN  loop(1, <<>>)

\* __main__: what download gave, what convert gave, the file afterwards and
\* the exception that ended the script, if any
convert_divinity76s_database(downloaded, file) ==
    IF downloaded.t = "raise"
    THEN [source |-> None, conv |-> None, file |-> file, exit |-> downloaded]
    ELSE LET converted == convert(downloaded.value)
         IN  IF converted.t = "raise"
             THEN [source |-> downloaded.value, conv |-> None, file |-> file,
                   exit |-> converted]
             ELSE [source |-> downloaded.value, conv |-> converted.value,
                   file |-> save_cpus(converted.value), exit |-> None]

-----------------------------------------------------------------------------
(* The hardware detection of src/comphardware/helpers.py.  The host is     *)
(* what the probes find:                                                   *)
(*   brand_raw  cpuinfo's "brand_raw", None when the key is absent         *)
(*   glut       GlutMissing when glutInit raises, NoContext when GLUT is   *)
(*              initialised and glGetString then gives None, or the bytes  *)
(*              of the renderer as a str                                   *)
(*   system     platform.system()                                          *)
(*   command    what lspci or WMIC gave: a raise, or the output lines      *)
(*   total_ram  psutil.virtual_memory().total                              *)

Machine(brand_raw, glut, system, command, total_ram) ==
    [brand_raw |-> brand_raw, glut |-> glut, system |-> system,
     command |-> command, total_ram |-> total_ram]

GlutMissing == [t |-> "missing"]

NoContext == [t |-> "no context"]

\* a line of lspci: whether it names a VGA compatible controller, and what
\* follows its last colon
LspciLine(vga, raw_model) == [vga |-> vga, raw_model |-> raw_model]

\* str.strip for blanks
RECURSIVE strip(_)
strip(s) ==
    IF s = <<>> THEN s
    ELSE IF s[1] = " " THEN strip(Tail(s))
    ELSE IF s[Len(s)] = " " THEN strip(Front(s))
    ELSE s

\* _user_gpu_by_opengl: what it gives, and whether glutInit went through
_user_gpu_by_opengl(host) ==
    IF host.glut = GlutMissing
    THEN [out |-> Raise("NullFunctionError"), glut_inits |-> 0]
    ELSE IF host.glut = NoContext
    THEN [out |-> Raise("AttributeError"), glut_inits |-> 1]
    ELSE [out |-> Returned(PyStr(casefold(strip(host.glut.s)))), glut_inits |-> 1]

\* the loop over the characters of raw_model
RECURSIVE lspci_model(_, _, _)
lspci_model(raw_model, i, gpu_model) ==
    IF i > Len(raw_model) THEN gpu_model
    ELSE IF raw_model[i] = "(" THEN gpu_model
    ELSE IF raw_model[i] = "]"
         THEN LET parts == split(SubSeq(raw_model, 1, i - 1), "[")
              IN  parts[Len(parts)]
    ELSE lspci_model(raw_model, i + 1, Append(gpu_model, raw_model[i]))

\* the loop over the lines of lspci: the last VGA line wins
RECURSIVE lspci_loop(_, _, _)
lspci_loop(lines, i, gpu_model) ==
    IF i > Len(lines) THEN gpu_model
    ELSE IF lines[i].vga
         THEN lspci_loop(lines, i + 1, PyStr(lspci_model(lines[i].raw_model, 1, <<>>)))
    ELSE lspci_loop(lines, i + 1, gpu_model)

\* _user_gpu_by_platform; the name NotImplented does not exist, so the raise
\* for an unsupported platform is a NameError
_user_gpu_by_platform(host) ==
    IF host.system = "Linux"
    THEN IF host.command.t = "raise" THEN host.command
         ELSE Returned(lspci_loop(host.command.value, 1, None))
    ELSE IF host.system = "Windows"
    THEN IF host.command.t = "raise" THEN host.command
         ELSE IF Len(host.command.value) < 2 THEN Raise("IndexError")
         ELSE Returned(PyStr(host.command.value[2]))
    ELSE Raise("NameError")

\* mutant: a cached None does not count as cached
user_cpu_none_uncached(cached, host, cpus) ==
    IF cached.t # "int" /\ cached # None
    THEN [ret |-> cached, cache |-> cached, cpuinfo |-> 0, matcher |-> 0]
    ELSE LET cluttered_cpu == host.brand_raw
         IN  IF cluttered_cpu = None \/ cluttered_cpu.s = <<>>
             THEN [ret |-> None, cache |-> cached, cpuinfo |-> 1, matcher |-> 0]
             ELSE LET actual_cpu == find_cpu_by_model(cpus, cluttered_cpu.s)
                  IN  [ret |-> actual_cpu, cache |-> actual_cpu,
                       cpuinfo |-> 1, matcher |-> 1]

\* user_cpu: what it returns, the cache afterwards, and how often it asked
\* cpuinfo and ran the matcher
user_cpu(cached, host, cpus) ==
    IF cached.t # "int"
    THEN [ret |-> cached, cache |-> cached, cpuinfo |-> 0, matcher |-> 0]
    ELSE LET cluttered_cpu == host.brand_raw
         IN  IF cluttered_cpu = None \/ cluttered_cpu.s = <<>>
             THEN [ret |-> None, cache |-> cached, cpuinfo |-> 1, matcher |-> 0]
             ELSE LET actual_cpu == find_cpu_by_model(cpus, cluttered_cpu.s)
                  IN  [ret |-> actual_cpu, cache |-> actual_cpu,
                       cpuinfo |-> 1, matcher |-> 1]

\* user_gpu: what it returns or raises, the cache afterwards, and how often
\* it started each probe and ran the matcher.  "except NotImplemented" names
\* no exception class: when _user_gpu_by_platform raises, matching the
\* raise against that clause raises TypeError.
user_gpu(cached, no_window, host, gpus) ==
    IF cached.t # "int"
    THEN [ret |-> cached, cache |-> cached,
          opengl |-> 0, glut_inits |-> 0, platform |-> 0, matcher |-> 0]
    ELSE LET tried    == ~no_window
             gl       == _user_gpu_by_opengl(host)
             by_gl    == IF tried /\ gl.out.t # "raise" THEN gl.out.value ELSE None
             asked    == by_gl = None
             by_os    == _user_gpu_by_platform(host)
             opengl   == IF tried THEN 1 ELSE 0
             inits    == IF tried THEN gl.glut_inits ELSE 0
             platform == IF asked THEN 1 ELSE 0
         IN  IF asked /\ by_os.t = "raise"
             THEN [ret |-> Raise("TypeError"), cache |-> cached, opengl |-> opengl,
                   glut_inits |-> inits, platform |-> platform, matcher |-> 0]
             ELSE LET gpu_model == IF asked THEN by_os.value ELSE by_gl
                  IN  IF gpu_model = None
                      THEN [ret |-> None, cache |-> cached, opengl |-> opengl,
                            glut_inits |-> inits, platform |-> platform, matcher |-> 0]
                      ELSE LET actual_gpu == find_gpu_by_model(gpus, gpu_model.s)
                           IN  [ret |-> actual_gpu, cache |-> actual_gpu,
                                opengl |-> opengl, glut_inits |-> inits,
                                platform |-> platform, matcher |-> 1]

\* user_setup, from what its calls of user_cpu and user_gpu gave
user_setup(cpu, gpu, host) ==
    IF gpu.ret.t = "raise" THEN gpu.ret
    ELSE SystemSetup(cpu.ret, gpu.ret, host.total_ram)

-----------------------------------------------------------------------------
(* list.sort(key=...) as the database scripts use it: a stable sort *)

\* x < y for two non-negative ints
RECURSIVE digits_lt(_, _)
digits_lt(a, b) ==
    IF a = <<>> THEN FALSE
    ELSE IF a[1] # b[1] THEN a[1] < b[1]
    ELSE digits_lt(Tail(a), Tail(b))

int_lt(x, y) ==
    Len(x.mag) < Len(y.mag) \/ (Len(x.mag) = Len(y.mag) /\ digits_lt(x.mag, y.mag))

\* sorted with x put behind every item that is not greater than x
insert_behind(sorted, x, not_greater) ==
    LET p == Cardinality({i \in DOMAIN sorted : not_greater[i]})
    IN  SubSeq(sorted, 1, p) \o <<x>> \o SubSeq(sorted, p + 1, Len(sorted))

\* cpus.sort(key=lambda cpu: cpu.model)
RECURSIVE sort_by_model(_)
sort_by_model(cpus) ==
    IF cpus = <<>> THEN <<>>
    ELSE LET sorted == sort_by_model(Front(cpus))
             x      == cpus[Len(cpus)]
         IN  insert_behind(sorted, x,
                 [i \in DOMAIN sorted |-> ~str_lt(x.model, sorted[i].model)])

\* old_cpus.sort(key=lambda cpu: cpu.product_id)
RECURSIVE sort_by_product_id(_)
sort_by_product_id(cpus) ==
    IF cpus = <<>> THEN <<>>
    ELSE LET sorted == sort_by_product_id(Front(cpus))
             x      == cpus[Len(cpus)]
         IN  insert_behind(sorted, x,
                 [i \in DOMAIN sorted |-> ~int_lt(x.product_id, sorted[i].product_id)])

-----------------------------------------------------------------------------
(* src/database-scripts/intel_ark.py and update-cpu-database.py.  The      *)
(* range of product IDs is cut to MaxIds IDs from STARTID on.              *)

MaxIds == 3

STARTID == 27994

ENDID == STARTID + MaxIds - 1

RATE_LIMIT_DELAY == 55

\* what a page shows: the text of its title and of the three data-key
\* elements, None for one that is not there
Page(title, number, cores, clock) ==
    [title |-> title, number |-> number, cores |-> cores, clock |-> clock]

Response(status_code, page) == [t |-> "response", status_code |-> status_code, page |-> page]

\* sub in s
contains(s, sub) ==
    \E i \in 1..(Len(s) - Len(sub) + 1) : SubSeq(s, i, i + Len(sub) - 1) = sub

\* the try block around the title: TRUE when the loop goes on to parse_cpu,
\* FALSE at either continue
title_names_processor(page) ==
    IF page.title = None THEN FALSE
    ELSE contains(page.title.s, <<"P", "r", "o", "c", "e", "s", "s", "o", "r">>)

\* parse_cpu: a CPU or None, or its raise.  The clock texts of the model hold
\* single blanks, where split() and split(" ") agree.
parse_cpu(website, product_id) ==
    IF website.number = None THEN Returned(None)
    ELSE IF website.cores = None THEN Raise("AttributeError")
    ELSE IF number_of(website.cores.s).t = "raise" THEN Raise("ValueError")
    ELSE IF website.clock = None THEN Raise("AttributeError")
    ELSE LET raw == split(strip(website.clock.s), " ")
         IN  IF raw[1] = <<>> THEN Raise("IndexError")
             ELSE IF number_of(raw[1]).t = "raise" THEN Raise("ValueError")
             ELSE IF Len(raw) < 2 THEN Raise("IndexError")
             ELSE Returned(CPU(casefold(strip(website.number.s)), IntLit(product_id),
                               Intel, number_of(website.cores.s),
                               scripts_human_readable_to_hertz(number_of(raw[1]),
                                                               PyStr(raw[2]))))

\* dogelog.Progress
Progress(current, end) == [t |-> "Progress", current |-> current, end |-> end]

-----------------------------------------------------------------------------
(* src/database-scripts/wiki_gpu_tables.py.  A table is what pandas read:  *)
(* its column identifiers (table.axes[1]) and its rows (table.to_numpy()). *)
(* A column identifier is a str, an int or a tuple of them; a cell is the   *)
(* str of its text or NaN, the float pandas puts into an empty cell.       *)
(* Columns and cells are counted from 1 where Python counts from 0.        *)

Table(columns, rows) == [columns |-> columns, rows |-> rows]

PyTuple(items) == [t |-> "tuple", items |-> items]

NaN == [t |-> "float", nan |-> TRUE]

\* str(cell)
str(cell) == IF cell = NaN THEN <<"n", "a", "n">> ELSE cell.s

\* str.isspace for one character
isspace(char) == char \in {" ", "\t"}

\* the loop of strip_unimportant: the characters before the first [ or (,
\* every space character made a blank
RECURSIVE strip_unimportant_loop(_)
strip_unimportant_loop(chars) ==
    IF chars = <<>> THEN <<>>
    ELSE IF chars[1] = "[" \/ chars[1] = "(" THEN <<>>
    ELSE <<IF isspace(chars[1]) THEN " " ELSE chars[1]>>
            \o strip_unimportant_loop(Tail(chars))

\* strip_unimportant of a cell: its raise for a cell that is no str
strip_unimportant(cell) ==
    IF cell.t # "str" THEN Raise("TypeError")
    ELSE Returned(strip(strip_unimportant_loop(cell.s)))

\* text[:n]
Take(text, n) == SubSeq(text, 1, IF n < Len(text) THEN n ELSE Len(text))

\* float(text) for a text of digits
to_float(text) == IF text = <<>> THEN Raise("ValueError") ELSE int(text)

\* guess_newline: the number it gives, or its raise.  value is the text from
\* its first digit on, cut before the first character that is no digit;
\* value[-1] raises on the empty text; float raises on the empty text.
guess_newline(text, u) ==
    LET number_begin == IF \E i \in 1..Len(text) : text[i] \in DigitChars
                        THEN CHOOSE i \in 1..Len(text) :
                                /\ text[i] \in DigitChars
                                /\ \A j \in 1..(i - 1) : text[j] \notin DigitChars
                        ELSE 1
        first_number(from_number) ==
            IF \E i \in 1..Len(from_number) : from_number[i] \notin DigitChars
            THEN SubSeq(from_number, 1,
                        (CHOOSE i \in 1..Len(from_number) :
                            /\ from_number[i] \notin DigitChars
                            /\ \A j \in 1..(i - 1) : from_number[j] \in DigitChars) - 1)
            ELSE from_number
        by_unit(v) ==
            to_float(IF u \in {<<"g", "b">>, <<"g", "i", "b">>, <<"g", "h", "z">>}
                     THEN IF Len(v) % 2 = 1 THEN Take(v, 2) ELSE v
                     ELSE IF u \in {<<"m", "b">>, <<"m", "i", "b">>, <<"m", "h", "z">>}
                     THEN IF Len(v) = 7 THEN Take(v, 3)
                          ELSE IF Len(v) % 4 = 0 THEN Take(v, 4)
                          ELSE IF Len(v) = 10 THEN Take(v, 3)
                          ELSE IF Len(v) = 11 THEN Take(v, 3)
                          ELSE IF Len(v) % 3 = 0 THEN Take(v, 3)
                          ELSE v
                     ELSE v)
        footnote(v) ==
            IF v = <<>> THEN Raise("IndexError")
            ELSE by_unit(IF v[Len(v)] = "7" THEN Front(v) ELSE v)
    IN  footnote(first_number(SubSeq(text, number_begin, Len(text))))

\* the tuple (index, unit) and the plain index that indices holds
ColumnUnit(index, u) == [t |-> "tuple", index |-> index, unit |-> u]

Column(index) == [t |-> "int", index |-> index]

\* the vram or core speed of a row: the cell in column at.index, in at.unit
cell_number(row, at) ==
    guess_newline(strip_unimportant(PyStr(str(row[at.index]))).value, at.unit)

\* parse_gpu: the GPU, or its raise
parse_gpu(row, indices, vendor) ==
    LET vram_unit == IF indices.vram # None THEN indices.vram.unit ELSE <<"m", "i", "b">>
        gpu(model, vram, corespeed, codename) ==
            IF model.t = "raise" THEN model
            ELSE IF vram.t = "raise" THEN vram
            ELSE IF corespeed.t = "raise" THEN corespeed
            ELSE IF codename.t = "raise" THEN codename
            ELSE Returned(GPU(casefold(model.value), vendor,
                              scripts_human_readable_to_bytes(vram, PyStr(vram_unit)),
                              scripts_human_readable_to_hertz(corespeed,
                                                              PyStr(indices.corespeed.unit)),
                              codename.value))
    IN  gpu(strip_unimportant(row[1]),
            IF indices.vram # None THEN cell_number(row, indices.vram) ELSE IntLit(3000),
            cell_number(row, indices.corespeed),
            strip_unimportant(row[indices.codename.index]))

\* the characters \w matches
WordChars ==
    {"a", "b", "c", "d", "e", "f", "g", "h", "i", "j", "k", "l", "m", "n", "o",
     "p", "q", "r", "s", "t", "u", "v", "w", "x", "y", "z", "_"} \cup DigitChars

\* where the word that begins at i ends: the first position from i on that
\* holds no word character
RECURSIVE word_end(_, _)
word_end(s, i) ==
    IF i > Len(s) \/ s[i] \notin WordChars THEN i ELSE word_end(s, i + 1)

\* VALUEREGEX.search(s): ".+\((\w+)\)" matches from the first character on,
\* and its greedy ".+" leaves the last "(word)" that has a character before
\* it for the group.  None when nothing matches.
VALUEREGEX_search(s) ==
    LET opens == {i \in 2..Len(s) :
                    /\ s[i] = "("
                    /\ word_end(s, i + 1) > i + 1
                    /\ word_end(s, i + 1) <= Len(s)
                    /\ s[word_end(s, i + 1)] = ")"}
    IN  IF opens = {} THEN None
        ELSE LET i == CHOOSE i \in opens : \A j \in opens : j <= i
             IN  PyStr(SubSeq(s, i + 1, word_end(s, i + 1) - 1))

NoIndices == [vram |-> None, corespeed |-> None, codename |-> None]

\* the loop over the column identifiers: the indices found and whether the
\* table is to be skipped, or the raise of match.group on no match
RECURSIVE column_loop(_, _, _)
column_loop(columns, i, indices) ==
    IF i > Len(columns) THEN [t |-> "indices", indices |-> indices, skip_table |-> FALSE]
    ELSE LET ident(column) == IF column.t = "tuple"
                              THEN column.items[Len(column.items)]
                              ELSE column
             folded(column_ident) ==
                LET has(sub) == contains(column_ident, sub)
                    unit_of(match, key) ==
                        IF match = None THEN Raise("AttributeError")
                        ELSE column_loop(columns, i + 1,
                                         [indices EXCEPT ![key] = ColumnUnit(i, match.s)])
                IN  IF /\ has(<<"s", "i", "z", "e">>) \/ has(<<"d", "v", "m", "t">>)
                       /\ \/ has(<<"m", "b">>) \/ has(<<"m", "i", "b">>)
                          \/ has(<<"g", "b">>) \/ has(<<"g", "i", "b">>)
                    THEN unit_of(VALUEREGEX_search(column_ident), "vram")
                    ELSE IF /\ \/ has(<<"c", "o", "r", "e">>)
                               \/ has(<<"a", "v", "e", "r", "a", "g", "e">>)
                               \/ has(<<"b", "a", "s", "e">>)
                               \/ has(<<"m", "a", "x">>)
                            /\ ~has(<<"b", "o", "o", "s", "t">>)
                            /\ has(<<"m", "h", "z">>) \/ has(<<"g", "h", "z">>)
                    THEN unit_of(VALUEREGEX_search(column_ident), "corespeed")
                    ELSE IF has(<<"c", "o", "d", "e">>)
                    THEN column_loop(columns, i + 1, [indices EXCEPT !.codename = Column(i)])
                    ELSE column_loop(columns, i + 1, indices)
             typed(column_ident) ==
                IF column_ident.t = "int"
                THEN [t |-> "indices", indices |-> indices, skip_table |-> TRUE]
                ELSE folded(casefold(column_ident.s))
         IN  typed(ident(columns[i]))

\* the check that every needed column was found
unfound(indices, vendor) ==
    \/ indices.vram = None /\ vendor # <<"i", "n", "t", "e", "l">>
    \/ indices.corespeed = None
    \/ indices.codename = None

\* mutant: a row that cannot be parsed is passed over
row_pass_continue(gpu, gpus) ==
    IF gpu.t = "raise"
    THEN IF gpu.exc \in {"ValueError", "IndexError"}
         THEN [t |-> "next", gpus |-> gpus]
         ELSE gpu
    ELSE [t |-> "next", gpus |-> Append(gpus, gpu.value)]

\* one pass of the loop over the rows, gpu being what parse_gpu gave: the
\* list gpus afterwards and whether the loop goes to the next row or breaks,
\* or the raise that leaves extract_gpus
row_pass(gpu, gpus) ==
    IF gpu.t = "raise"
    THEN IF gpu.exc \in {"ValueError", "IndexError"}
         THEN [t |-> "break", gpus |-> gpus]
         ELSE gpu
    ELSE [t |-> "next", gpus |-> Append(gpus, gpu.value)]

\* the loop over the rows of one table: gpus afterwards, or the raise
RECURSIVE row_loop(_, _, _, _, _)
row_loop(rows, r, indices, vendor, gpus) ==
    IF r > Len(rows) THEN Returned(gpus)
    ELSE LET after(pass) ==
                IF pass.t = "raise" THEN pass
                ELSE IF pass.t = "break" THEN Returned(pass.gpus)
                ELSE row_loop(rows, r + 1, indices, vendor, pass.gpus)
         IN  after(row_pass(parse_gpu(rows[r], indices, vendor), gpus))

\* the loop over the tables: what extract_gpus returns or raises, and
\* dogelog.progress afterwards
RECURSIVE table_loop(_, _, _, _)
table_loop(tables, n, vendor, gpus) ==
    IF n > Len(tables) THEN [out |-> Returned(gpus), progress |-> None]
    ELSE LET after_rows(walked) ==
                IF walked.t = "raise"
                THEN [out |-> walked, progress |-> Progress(n, Len(tables))]
                ELSE table_loop(tables, n + 1, vendor, walked.value)
             after_columns(found) ==
                IF found.t = "raise"
                THEN [out |-> found, progress |-> Progress(n, Len(tables))]
                ELSE IF found.skip_table \/ unfound(found.indices, vendor)
                THEN table_loop(tables, n + 1, vendor, gpus)
                ELSE after_rows(row_loop(tables[n].rows, 1, found.indices, vendor, gpus))
         IN  after_columns(column_loop(tables[n].columns, 1, NoIndices))

\* extract_gpus; ignore_models is never read
extract_gpus(tables, ignore_models, vendor) == table_loop(tables, 1, vendor, <<>>)

\* the vendors of update-gpu-database, in the order of gpu_vendors
gpu_vendors == <<<<"n", "v", "i", "d", "i", "a">>, <<"a", "m", "d">>,
                 <<"i", "n", "t", "e", "l">>>>

\* parse: read is what pd.read_html(url) gave, the tables or its raise
parse(read, ignore_models, vendor) ==
    IF read.t = "raise" THEN [out |-> read, progress |-> None]
    ELSE extract_gpus(read.value, ignore_models, vendor)

\* the for loop of update-gpu-database over gpu_vendors: the list gpus
\* afterwards, or the raise that ends the script, and dogelog.progress
RECURSIVE vendor_loop(_, _, _, _)
vendor_loop(pages, n, old, gpus) ==
    IF n > Len(gpu_vendors) THEN [out |-> Returned(gpus), progress |-> None]
    ELSE LET after(parsed) ==
                IF parsed.out.t = "raise" THEN parsed
                ELSE vendor_loop(pages, n + 1, old, gpus \o parsed.out.value)
         IN  after(parse(pages[n], old, gpu_vendors[n]))

-----------------------------------------------------------------------------
(* src/database-scripts/dogelog.py.  What is written to sys.stdout, to     *)
(* sys.stderr and to a logfile is kept as the sequence of the things       *)
(* written; a log entry is kept as its level prefix and its message, the   *)
(* layout of a message of several lines is left out.                       *)

\* Level.value
DEBUG == 1

INFO == 2

ERROR == 3

\* the file object files[i]
File(i) == [t |-> "file", index |-> i]

\* format_level: the sign of the level, whether it is coloured and whether
\* it comes with the time and the level's name
format_level(m, level) ==
    [sign   |-> CASE level = DEBUG -> "//" [] level = INFO -> "::" [] level = ERROR -> "##",
     colour |-> m = "NORMAL",
     stamp  |-> m = "EXTENSIVE"]

\* len(format_level(level))
format_level_len(m, level) ==
    CASE m = "NONE" -> 2
      [] m = "NORMAL" -> IF level = INFO THEN 23 ELSE 22
      [] m = "EXTENSIVE" -> 32

\* mutant: the logfile is forgotten and left open
close_if_needed_leaves_open(fs, lf) ==
    [files |-> fs, logfile |-> None]

\* close_if_needed: the files and logfile afterwards
close_if_needed(fs, lf) ==
    [files   |-> IF lf # None THEN [fs EXCEPT ![lf.index].open = FALSE] ELSE fs,
     logfile |-> None]

\* mutant: a message at the filter level is dropped as well
below_or_at_filterlevel(level, filter) == level <= filter

\* whether log returns without writing
below_filterlevel(level, filter) == level < filter

\* mutant: an error goes to stderr also while a progress bar is active
log_target_by_level(level, lf, bar) ==
    IF lf = None
    THEN IF level = ERROR THEN "stderr" ELSE "stdout"
    ELSE "logfile"

\* the target log prints the entry to
log_target(level, lf, bar) ==
    IF lf = None
    THEN IF bar = None
         THEN IF level = ERROR THEN "stderr" ELSE "stdout"
         ELSE "stdout"
    ELSE "logfile"

\* the log entry of a message
LogEntry(m, level, message) ==
    [kind |-> "entry", prefix |-> format_level(m, level), message |-> message]

\* the first line init_file writes
NewLogBegins == [kind |-> "new log begins"]

\* what Progress._delete_on_stdout writes to sys.stdout
_delete_on_stdout(len, lf) ==
    IF len = 0 \/ lf # None THEN <<>>
    ELSE <<[kind |-> "backspaces", len |-> len], [kind |-> "blanks", len |-> len],
           [kind |-> "backspaces", len |-> len]>>

\* the message of the progress bars
BarMessage == <<"P", "a", "r", "s", "i", "n", "g">>

\* the number of decimal digits of a natural number below 100
digits_len(n) == IF n < 10 THEN 1 ELSE 2

\* the status Progress._redraw composes: on a terminal with the bar, of
\* which filled characters are filled, in a file without
status(m, bar, lf) ==
    [kind     |-> "status",
     prefix   |-> format_level(m, INFO),
     message  |-> BarMessage,
     current  |-> bar.current,
     end      |-> bar.end,
     filled   |-> IF lf # None THEN None
                  ELSE IF bar.current >= bar.end THEN IntLit(23)
                  ELSE IntLit((23 * bar.current) \div bar.end)]

\* len(status) on a terminal: prefix, message, fraction and bar, a blank
\* between each two; current is right-justified to the width of end
status_len(m, bar) ==
    format_level_len(m, INFO) + 1 + Len(BarMessage) + 1
        + (IF digits_len(bar.current) > digits_len(bar.end)
           THEN digits_len(bar.current) ELSE digits_len(bar.end))
        + 1 + digits_len(bar.end) + 1 + 25

-----------------------------------------------------------------------------
(* Inputs of the unit normalisers *)

MaxValue == 8

Values == {IntLit(n) : n \in -2..MaxValue}

\* the lower-case letter c and its upper-case form
LetterCases(c) ==
    CASE c = "b" -> {"b", "B"} [] c = "g" -> {"g", "G"} [] c = "h" -> {"h", "H"}
      [] c = "i" -> {"i", "I"} [] c = "k" -> {"k", "K"} [] c = "m" -> {"m", "M"}
      [] c = "t" -> {"t", "T"} [] c = "x" -> {"x", "X"} [] c = "z" -> {"z", "Z"}
      [] OTHER -> {c}

\* every upper/lower-case spelling of the word w
RECURSIVE CaseSpellings(_)
CaseSpellings(w) ==
    IF w = <<>> THEN {<<>>}
    ELSE {<<c>> \o r : c \in LetterCases(w[1]), r \in CaseSpellings(Tail(w))}

ByteWords == {<<"b">>, <<"k","b">>, <<"k","i","b">>, <<"m","b">>, <<"m","i","b">>,
              <<"g","b">>, <<"g","i","b">>, <<"t","b">>, <<"t","i","b">>}

HertzWords == {<<"k","h","z">>, <<"m","h","z">>, <<"g","h","z">>, <<"t","h","z">>}

OtherWords == {<<>>, <<"h","z">>, <<"x","b">>, <<"b","b">>, <<"g","b","b">>,
               <<"k","i">>, <<"i","b">>, <<"g","z">>}

Units == UNION {CaseSpellings(w) : w \in ByteWords \cup HertzWords \cup OtherWords}

-----------------------------------------------------------------------------
(* Inputs of the matcher *)

MaxKeyLen == 2

MaxDbSize == 2

MaxQueryLen == 2

PadLen == 200

KeyChars == {"a", "b", "x"}

\* every string of at most n characters over chars
Strs(chars, n) == UNION {[1..k -> chars] : k \in 0..n}

ModelKeys == Strs(KeyChars, MaxKeyLen) \ {<<>>}

\* a dict of the given keys in the given order; entry i holds record Ri
Dict(keys) == [i \in 1..Len(keys) |-> [key |-> keys[i], rec |-> [t |-> "component", id |-> i]]]

Databases ==
    {Dict(keys) : keys \in {ks \in UNION {[1..n -> ModelKeys] : n \in 0..MaxDbSize} :
                               \A i, j \in 1..Len(ks) : i # j => ks[i] # ks[j]}}

Pad(c) == [i \in 1..PadLen |-> c]

\* short strings, and long ones in which one character dominates
Queries ==
    Strs(KeyChars, MaxQueryLen)
        \cup {base \o Pad("a") : base \in Strs(KeyChars, 1)}

\* the databases the package ships in comphardware/data
PackagedDatabases ==
    {Dict(<<>>), Dict(<<<<"a">>, <<"a", "b">>>>), Dict(<<<<"a", "b">>, <<"a">>>>),
     Dict(<<<<"x", "a">>, <<"b">>>>)}

-----------------------------------------------------------------------------
(* Inputs of setup_from_clutter *)

MaxTokens == 3

RamTokens == {<<"8">>, <<"1", "6">>, <<"G", "B">>, <<"R", "A", "M">>, <<"8", "G", "B">>}

Separators == {<<" ">>, <<" ", " ">>, <<"\t">>}

\* the tokens ts with seps[i] between ts[i] and ts[i + 1]
RECURSIVE Join(_, _)
Join(ts, seps) ==
    IF Len(ts) = 0 THEN <<>>
    ELSE IF Len(ts) = 1 THEN ts[1]
    ELSE ts[1] \o seps[1] \o Join(Tail(ts), Tail(seps))

RamClutters ==
    UNION {{Join(ts, seps) : ts \in [1..n -> RamTokens],
                             seps \in [1..(IF n = 0 THEN 0 ELSE n - 1) -> Separators]} :
           n \in 0..MaxTokens}

ModelClutters == {<<"a", "b">>, <<"x">>}

-----------------------------------------------------------------------------
(* Inputs of the record constructors and of save_* and load_* *)

MaxCores == 8

MaxRecords == 2

RecordModels == {<<"a">>, <<"b">>}

ProductIds == {IntLit(1), IntLit(2)}

GpuVendors == {<<"a", "m", "d">>, <<"n", "v", "i", "d", "i", "a">>}

CoreCounts == {IntLit(n) : n \in 0..MaxCores}

\* the multiples of 1.325 GHz up to 5.3 GHz
CoreSpeeds == {PyMul(IntLit(n * 1325), PyPow(IntLit(10), 6)) : n \in 0..4}

\* 0, 5 and 10 GiB
Vrams == {PyMul(IntLit(n * 5), PyPow(IntLit(1024), 3)) : n \in 0..2}

\* 0, 720 and 1440 MHz
GpuSpeeds == {PyMul(IntLit(n * 720), PyPow(IntLit(10), 6)) : n \in 0..2}

FileCpus ==
    {CPU(m, p, Intel, IntLit(cc), PyMul(IntLit(2650), PyPow(IntLit(10), 6))) :
        m \in RecordModels, p \in ProductIds, cc \in {4, 8}}

\* records whose corecount was assigned again after construction
ReassignedCpus == {[r EXCEPT !.corecount = IntLit(2)] : r \in FileCpus}

CpuLists == UNION {[1..n -> FileCpus \cup ReassignedCpus] : n \in 0..MaxRecords}

FileGpus ==
    {GPU(m, v, PyMul(IntLit(vram), PyPow(IntLit(1024), 3)),
         PyMul(IntLit(1440), PyPow(IntLit(10), 6)), <<"x">>) :
        m \in RecordModels, v \in GpuVendors, vram \in {5, 10}}

\* records whose vram was assigned again after construction
ReassignedGpus == {[r EXCEPT !.vram = PyPow(IntLit(1024), 3)] : r \in FileGpus}

GpuLists == UNION {[1..n -> FileGpus \cup ReassignedGpus] : n \in 0..MaxRecords}


-----------------------------------------------------------------------------
(* Inputs of convert-divinity76s-database *)

MaxSource == 2

GoodCores == PyStr(<<"4">>)

GoodFrequency == PyStr(<<"2", " ", "G", "H", "z">>)

\* members convert makes a CPU of
GoodEntries ==
    {SourceEntry(k, PyStr(n), GoodCores, GoodFrequency) :
        k \in {<<"1">>, <<"2">>, <<"3">>}, n \in {<<"a">>, <<"b">>, <<"B">>}}

\* members with one field that is absent or malformed
OddEntries ==
    {SourceEntry(<<"x">>, PyStr(<<"a">>), GoodCores, GoodFrequency),
     SourceEntry(<<"4">>, None, GoodCores, GoodFrequency),
     SourceEntry(<<"5">>, PyStr(<<"a">>), None, GoodFrequency),
     SourceEntry(<<"6">>, PyStr(<<"a">>), PyStr(<<"x">>), GoodFrequency),
     SourceEntry(<<"7">>, PyStr(<<"a">>), GoodCores, None),
     SourceEntry(<<"8">>, PyStr(<<"a">>), GoodCores, PyStr(<<"2", "G", "H", "z">>)),
     SourceEntry(<<"9">>, PyStr(<<"a">>), GoodCores, PyStr(<<"2">>))}

SourceEntries == GoodEntries \cup OddEntries

\* the source databases: dicts, so no key twice
Sources ==
    UNION {{s \in [1..n -> SourceEntries] :
                \A i, j \in 1..n : i # j => s[i].key # s[j].key} : n \in 0..MaxSource}

\* what download can give: a database, or the raise of raise_for_status
Downloads == {Returned(s) : s \in Sources} \cup {Raise("HTTPError")}

-----------------------------------------------------------------------------
(* Inputs of the hardware detection *)

MaxCalls == 3

Brands == {None, PyStr(<<>>), PyStr(<<"a", "b">>)}

Gluts == {GlutMissing, NoContext, PyStr(<<" ", "A", "b", " ">>)}

\* the platform and what its command gives
Platforms ==
    {<<"Linux", Raise("FileNotFoundError")>>,
     <<"Linux", Returned(<<LspciLine(FALSE, <<" ", "x">>)>>)>>,
     <<"Linux", Returned(<<LspciLine(TRUE, <<" ", "x", " ", "[", "a", "b", "]", " ", "(", "r", ")">>),
                         LspciLine(FALSE, <<" ", "x">>)>>)>>,
     <<"Windows", Raise("FileNotFoundError")>>,
     <<"Windows", Returned(<<<<"N", "a", "m", "e">>>>)>>,
     <<"Windows", Returned(<<<<"N", "a", "m", "e">>, <<"a", "b">>, <<>>>>)>>,
     <<"Darwin", None>>}

Machines ==
    {Machine(brand, glut, p[1], p[2], IntLit(8)) :
        brand \in Brands, glut \in Gluts, p \in Platforms}

DetectDatabases == {Dict(<<>>), Dict(<<<<"a">>, <<"a", "b">>>>)}

-----------------------------------------------------------------------------
-----------------------------------------------------------------------------
(* Inputs of update-cpu-database *)

ProcessorTitle == PyStr(<<"P", "r", "o", "c", "e", "s", "s", "o", "r", " ", "x">>)

GoodClock == PyStr(<<" ", "2", " ", "G", "H", "z">>)

CpuPages ==
    {Page(ProcessorTitle, PyStr(n), PyStr(<<"4">>), GoodClock) :
        n \in {<<" ", "B", " ">>, <<"a">>}}

\* pages that are no CPU page or lack a part of one
OddPages ==
    {Page(None, None, None, None),
     Page(PyStr(<<"x">>), None, None, None),
     Page(ProcessorTitle, None, None, None),
     Page(ProcessorTitle, PyStr(<<"a">>), None, GoodClock),
     Page(ProcessorTitle, PyStr(<<"a">>), PyStr(<<"x">>), GoodClock),
     Page(ProcessorTitle, PyStr(<<"a">>), PyStr(<<"4">>), None),
     Page(ProcessorTitle, PyStr(<<"a">>), PyStr(<<"4">>), PyStr(<<"x", " ", "G", "H", "z">>)),
     Page(ProcessorTitle, PyStr(<<"a">>), PyStr(<<"4">>), PyStr(<<"2">>))}

\* what requests.get gives for one product ID, its raises apart from the
\* keyboard interrupt included
RequestOutcomes ==
    {Raise("Timeout"), Raise("ConnectionError"),
     Response(404, Page(None, None, None, None)),
     Response(429, Page(None, None, None, None))}
    \cup {Response(200, p) : p \in CpuPages \cup OddPages}
    \cup {Response(429, p) : p \in CpuPages}

\* the CPU database before the run
OldCpuDatabases ==
    {Missing,
     save_cpus(<<CPU(<<"a">>, IntLit(STARTID + 1), Intel, IntLit(4),
                     PyMul(IntLit(2), PyPow(IntLit(10), 9)))>>),
     save_cpus(<<CPU(<<"c">>, IntLit(STARTID), Intel, IntLit(4),
                     PyMul(IntLit(2), PyPow(IntLit(10), 9))),
                 CPU(<<"b">>, IntLit(7), Intel, IntLit(8),
                     PyMul(IntLit(2), PyPow(IntLit(10), 9)))>>)}

-----------------------------------------------------------------------------
-----------------------------------------------------------------------------
(* Inputs of wiki_gpu_tables and update-gpu-database.  A row holds the     *)
(* cells model, code name, memory, clock.                                  *)

MaxRows == 2

Cell(text) == PyStr(text)

ModelColumn == PyStr(<<"M", "o", "d", "e", "l">>)

CodeColumn == PyStr(<<"C", "o", "d", "e", " ", "n", "a", "m", "e">>)

MemoryColumn ==
    PyStr(<<"M", "e", "m", "o", "r", "y", " ", "S", "i", "z", "e", " ", "(", "M", "i", "B", ")">>)

ClockColumn ==
    PyStr(<<"C", "o", "r", "e", " ", "c", "l", "o", "c", "k", " ", "(", "M", "H", "z", ")">>)

\* the columns of a GPU table, and column lists that are none
GoodColumns == <<ModelColumn, CodeColumn, MemoryColumn, ClockColumn>>

ColumnLists ==
    {GoodColumns,
     <<ModelColumn, CodeColumn, PyStr(<<"B", "u", "s">>), ClockColumn>>,
     <<ModelColumn, PyTuple(<<PyStr(<<"x">>), CodeColumn>>), MemoryColumn, ClockColumn>>,
     <<ModelColumn, CodeColumn, IntLit(2), ClockColumn>>,
     <<ModelColumn, CodeColumn, PyStr(<<"S", "i", "z", "e", " ", "M", "B">>), ClockColumn>>}

\* rows parse_gpu makes a GPU of: "a" and "b"
RowA ==
    <<Cell(<<"A", " ", "[", "1", "]">>), Cell(<<"x">>), Cell(<<"1", "0", "2", "4">>),
      Cell(<<"1", "4", "4", "0">>)>>

RowB ==
    <<Cell(<<"b">>), Cell(<<"y", "\t", "z">>), Cell(<<"2", "0", "4", "8", ".", "0">>),
      Cell(<<"1", "4", "4", "0", "1", "5", "0", "0">>)>>

GoodRows == {RowA, RowB}

\* rows it raises on: no number (IndexError), an empty cell (IndexError),
\* a lone footnote 7 (ValueError), no model (TypeError)
OddRows ==
    {<<Cell(<<"a">>), Cell(<<"x">>), Cell(<<"-">>), Cell(<<"1", "4", "4", "0">>)>>,
     <<Cell(<<"a">>), Cell(<<"x">>), NaN, Cell(<<"1", "4", "4", "0">>)>>,
     <<Cell(<<"b">>), Cell(<<"x">>), Cell(<<"1", "0", "2", "4">>), Cell(<<"7">>)>>,
     <<NaN, Cell(<<"x">>), Cell(<<"1", "0", "2", "4">>), Cell(<<"1", "4", "4", "0">>)>>}

RowLists == UNION {[1..n -> GoodRows \cup OddRows] : n \in 0..MaxRows}

\* tables of GPU columns with any rows, and tables of other columns
Tables ==
    {Table(GoodColumns, r) : r \in RowLists}
    \cup {Table(c, <<g>>) : c \in ColumnLists, g \in GoodRows}

\* no table, one table, or a table of GPU columns between two tables of one
\* row
TableLists ==
    {<<>>} \cup {<<t>> : t \in Tables}
    \cup {<<Table(GoodColumns, <<RowA>>), Table(GoodColumns, r), Table(GoodColumns, <<RowB>>)>> :
            r \in RowLists}

OldGpu(model) ==
    GPU(model, <<"a", "m", "d">>, PyMul(IntLit(5), PyPow(IntLit(1024), 3)),
        PyMul(IntLit(720), PyPow(IntLit(10), 6)), <<"o", "l", "d">>)

\* what the caller passes as ignore_models: GPU objects, as
\* update-gpu-database does, or model names, as the signature says
IgnoreLists == {<<>>, <<OldGpu(<<"a">>)>>, <<PyStr(<<"a">>)>>}

\* what pd.read_html gives for one vendor
ReadOutcomes ==
    {Raise("URLError"), Returned(<<>>)}
    \cup {Returned(<<Table(GoodColumns, <<g>>)>>) : g \in GoodRows}
    \cup {Returned(<<Table(GoodColumns, <<g, o, g>>)>>) :
            g \in {RowB},
            o \in {x \in OddRows : x[1] = NaN \/ x[4] = Cell(<<"7">>)}}

Pages == [1..Len(gpu_vendors) -> ReadOutcomes]

\* the GPU database before the run
OldGpuDatabases ==
    {Missing, save_gpus(<<OldGpu(<<"a">>)>>), save_gpus(<<OldGpu(<<"c">>), OldGpu(<<"b">>)>>)}

-----------------------------------------------------------------------------
-----------------------------------------------------------------------------
(* The state before any call *)

InitRecords ==
    /\ record = None
    /\ records = <<>>
    /\ cpu_database = Missing
    /\ gpu_database = Missing
    /\ loaded = <<>>

InitScripts ==
    /\ source = None
    /\ conv = None
    /\ exit = None
    /\ old_cpus = <<>>
    /\ collected = <<>>
    /\ current_id = STARTID
    /\ response = None
    /\ requested = [id \in STARTID..ENDID |-> 0]
    /\ limited = {}
    /\ slept = 0
    /\ progress = None
    /\ interrupt = "none"
    /\ given_tables = <<>>
    /\ given_models = <<>>
    /\ given_vendor = <<>>
    /\ extracted = None
    /\ read_html = <<>>
    /\ old_gpus = <<>>
    /\ new_gpus = <<>>

\* dogelog after its import
InitLogger ==
    /\ mode = "NORMAL"
    /\ filterlevel = INFO
    /\ logfile = None
    /\ files = <<>>
    /\ stdout = <<>>
    /\ stderr = <<>>
    /\ last_print_len = 0
    /\ logged = None
    /\ last_init = None

InitDetect ==
    /\ _cached_cpu = IntLit(0)
    /\ _cached_gpu = IntLit(0)
    /\ force_no_window = FALSE
    /\ returned = None
    /\ calls = 0
    /\ probes = [cpuinfo |-> 0, cpu_matcher |-> 0, opengl |-> 0, glut_inits |-> 0,
                 platform |-> 0, gpu_matcher |-> 0]

InitIdle ==
    /\ pc = "idle"
    /\ MODEL_TO_CPU = <<>>
    /\ MODEL_TO_GPU = <<>>
    /\ database = <<>>
    /\ unexact_model = <<>>
    /\ component = None
    /\ value = None
    /\ unit = None
    /\ result = None
    /\ cpu_clutter = <<>>
    /\ gpu_clutter = <<>>
    /\ ram_clutter = <<>>
    /\ setup = None
    /\ InitRecords
    /\ InitScripts
    /\ InitLogger
    /\ InitDetect
    /\ machine = None

-----------------------------------------------------------------------------
(* Calls of the unit normalisers *)

call_human_readable_to_bytes ==
    /\ pc = "idle"
    /\ \E v \in Values, u \in Units :
        /\ pc' = "human_readable_to_bytes"
        /\ value' = v
        /\ unit' = PyStr(u)
        /\ result' = human_readable_to_bytes(v, PyStr(u))
        /\ UNCHANGED <<globalVars, matchVars, clutterVars, recordVars, scriptVars, arkVars, wikiVars, logVars, detectVars>>

call_human_readable_to_hertz ==
    /\ pc = "idle"
    /\ \E v \in Values, u \in Units :
        /\ pc' = "human_readable_to_hertz"
        /\ value' = v
        /\ unit' = PyStr(u)
        /\ result' = human_readable_to_hertz(v, PyStr(u))
        /\ UNCHANGED <<globalVars, matchVars, clutterVars, recordVars, scriptVars, arkVars, wikiVars, logVars, detectVars>>

call_scripts_human_readable_to_bytes ==
    /\ pc = "idle"
    /\ \E v \in Values, u \in Units :
        /\ pc' = "scripts.human_readable_to_bytes"
        /\ value' = v
        /\ unit' = PyStr(u)
        /\ result' = scripts_human_readable_to_bytes(v, PyStr(u))
        /\ UNCHANGED <<globalVars, matchVars, clutterVars, recordVars, scriptVars, arkVars, wikiVars, logVars, detectVars>>

call_scripts_human_readable_to_hertz ==
    /\ pc = "idle"
    /\ \E v \in Values, u \in Units :
        /\ pc' = "scripts.human_readable_to_hertz"
        /\ value' = v
        /\ unit' = PyStr(u)
        /\ result' = scripts_human_readable_to_hertz(v, PyStr(u))
        /\ UNCHANGED <<globalVars, matchVars, clutterVars, recordVars, scriptVars, arkVars, wikiVars, logVars, detectVars>>

NextUnits ==
    \/ call_human_readable_to_bytes
    \/ call_human_readable_to_hertz
    \/ call_scripts_human_readable_to_bytes
    \/ call_scripts_human_readable_to_hertz

SpecUnits == InitIdle /\ [][NextUnits]_vars

-----------------------------------------------------------------------------
(* Calls of the matcher with a database of the caller's *)

call_find_by_model ==
    /\ pc = "idle"
    /\ \E db \in Databases, query \in Queries :
        /\ pc' = "_find_by_model"
        /\ database' = db
        /\ unexact_model' = query
        /\ component' = _find_by_model(db, query)
        /\ UNCHANGED <<globalVars, convVars, clutterVars, recordVars, scriptVars, arkVars, wikiVars, logVars, detectVars>>

NextMatch == call_find_by_model

SpecMatch == InitIdle /\ [][NextMatch]_vars

-----------------------------------------------------------------------------
(* Calls of the public matchers, which search the packaged databases *)

InitPackaged ==
    /\ pc = "idle"
    /\ MODEL_TO_CPU \in PackagedDatabases
    /\ MODEL_TO_GPU \in PackagedDatabases
    /\ database = <<>>
    /\ unexact_model = <<>>
    /\ component = None
    /\ value = None
    /\ unit = None
    /\ result = None
    /\ cpu_clutter = <<>>
    /\ gpu_clutter = <<>>
    /\ ram_clutter = <<>>
    /\ setup = None
    /\ InitRecords
    /\ InitScripts
    /\ InitLogger
    /\ InitDetect
    /\ machine = None

call_find_cpu_by_model ==
    /\ pc = "idle"
    /\ \E model \in Queries :
        /\ pc' = "find_cpu_by_model"
        /\ database' = MODEL_TO_CPU
        /\ unexact_model' = model
        /\ component' = find_cpu_by_model(MODEL_TO_CPU, model)
        /\ UNCHANGED <<globalVars, convVars, clutterVars, recordVars, scriptVars, arkVars, wikiVars, logVars, detectVars>>

call_find_gpu_by_model ==
    /\ pc = "idle"
    /\ \E model \in Queries :
        /\ pc' = "find_gpu_by_model"
        /\ database' = MODEL_TO_GPU
        /\ unexact_model' = model
        /\ component' = find_gpu_by_model(MODEL_TO_GPU, model)
        /\ UNCHANGED <<globalVars, convVars, clutterVars, recordVars, scriptVars, arkVars, wikiVars, logVars, detectVars>>

NextFind ==
    \/ call_find_cpu_by_model
    \/ call_find_gpu_by_model

SpecFind == InitPackaged /\ [][NextFind]_vars

-----------------------------------------------------------------------------
(* Calls of setup_from_clutter *)

call_setup_from_clutter ==
    /\ pc = "idle"
    /\ \E cpu \in ModelClutters, gpu \in ModelClutters, ram \in RamClutters :
        /\ pc' = "setup_from_clutter"
        /\ cpu_clutter' = cpu
        /\ gpu_clutter' = gpu
        /\ ram_clutter' = ram
        /\ setup' = setup_from_clutter(MODEL_TO_CPU, MODEL_TO_GPU, cpu, gpu, ram)
        /\ UNCHANGED <<globalVars, matchVars, convVars, recordVars, scriptVars, arkVars, wikiVars, logVars, detectVars>>

NextClutter == call_setup_from_clutter

SpecClutter == InitPackaged /\ [][NextClutter]_vars

(* Calls of the record constructors and of save_* and load_* *)

call_CPU ==
    /\ pc = "idle"
    /\ \E model \in RecordModels, product_id \in ProductIds,
          corecount \in CoreCounts, corespeed \in CoreSpeeds :
        /\ pc' = "CPU"
        /\ record' = CPU(model, product_id, Intel, corecount, corespeed)
        /\ UNCHANGED <<coreVars, scriptVars, arkVars, wikiVars, logVars, detectVars, records, cpu_database, gpu_database, loaded>>

call_GPU ==
    /\ pc = "idle"
    /\ \E model \in RecordModels, vendor \in GpuVendors,
          vram \in Vrams, corespeed \in GpuSpeeds :
        /\ pc' = "GPU"
        /\ record' = GPU(model, vendor, vram, corespeed, <<"x">>)
        /\ UNCHANGED <<coreVars, scriptVars, arkVars, wikiVars, logVars, detectVars, records, cpu_database, gpu_database, loaded>>

call_save_cpus ==
    /\ pc = "idle"
    /\ \E cpus \in CpuLists :
        /\ pc' = "save_cpus"
        /\ records' = cpus
        /\ cpu_database' = save_cpus(cpus)
        /\ UNCHANGED <<coreVars, scriptVars, arkVars, wikiVars, logVars, detectVars, record, gpu_database, loaded>>

call_load_cpus ==
    /\ pc \in {"idle", "save_cpus"}
    /\ pc' = "load_cpus"
    /\ loaded' = load_cpus(cpu_database)
    /\ UNCHANGED <<coreVars, scriptVars, arkVars, wikiVars, logVars, detectVars, record, records, cpu_database, gpu_database>>

call_save_gpus ==
    /\ pc = "idle"
    /\ \E gpus \in GpuLists :
        /\ pc' = "save_gpus"
        /\ records' = gpus
        /\ gpu_database' = save_gpus(gpus)
        /\ UNCHANGED <<coreVars, scriptVars, arkVars, wikiVars, logVars, detectVars, record, cpu_database, loaded>>

call_load_gpus ==
    /\ pc \in {"idle", "save_gpus"}
    /\ pc' = "load_gpus"
    /\ loaded' = load_gpus(gpu_database)
    /\ UNCHANGED <<coreVars, scriptVars, arkVars, wikiVars, logVars, detectVars, record, records, cpu_database, gpu_database>>

NextRecords ==
    \/ call_CPU
    \/ call_GPU
    \/ call_save_cpus
    \/ call_load_cpus
    \/ call_save_gpus
    \/ call_load_gpus

SpecRecords == InitIdle /\ [][NextRecords]_vars

(* A run of convert-divinity76s-database *)

run_convert_divinity76s_database ==
    /\ pc = "idle"
    /\ \E downloaded \in Downloads :
        LET run == convert_divinity76s_database(downloaded, cpu_database)
        IN  /\ pc' = "convert-divinity76s-database"
            /\ source' = run.source
            /\ conv' = run.conv
            /\ cpu_database' = run.file
            /\ exit' = run.exit
            /\ UNCHANGED <<coreVars, detectVars, arkVars, wikiVars, logVars, record, records, gpu_database,
                           loaded>>

NextConvert == run_convert_divinity76s_database

SpecConvert == InitIdle /\ [][NextConvert]_vars

-----------------------------------------------------------------------------
(* Calls of the hardware detection, one after the other in one process *)

InitOnMachine ==
    /\ pc = "idle"
    /\ MODEL_TO_CPU \in DetectDatabases
    /\ MODEL_TO_GPU \in DetectDatabases
    /\ database = <<>>
    /\ unexact_model = <<>>
    /\ component = None
    /\ value = None
    /\ unit = None
    /\ result = None
    /\ cpu_clutter = <<>>
    /\ gpu_clutter = <<>>
    /\ ram_clutter = <<>>
    /\ setup = None
    /\ InitRecords
    /\ InitScripts
    /\ InitLogger
    /\ InitDetect
    /\ machine \in Machines

DetectPcs == {"idle", "user_cpu", "user_gpu", "user_setup"}

call_user_cpu ==
    /\ pc \in DetectPcs
    /\ machine # None
    /\ calls < MaxCalls
    /\ \E cpu \in {user_cpu(_cached_cpu, machine, MODEL_TO_CPU)} :
           /\ pc' = "user_cpu"
           /\ calls' = calls + 1
           /\ returned' = cpu.ret
           /\ _cached_cpu' = cpu.cache
           /\ probes' = [probes EXCEPT !.cpuinfo = @ + cpu.cpuinfo,
                                       !.cpu_matcher = @ + cpu.matcher]
           /\ UNCHANGED <<coreVars, recordVars, scriptVars, arkVars, wikiVars, logVars, _cached_gpu, machine,
                          force_no_window>>

call_user_gpu ==
    /\ pc \in DetectPcs
    /\ machine # None
    /\ calls < MaxCalls
    /\ \E force \in BOOLEAN :
        \E gpu \in {user_gpu(_cached_gpu, force, machine, MODEL_TO_GPU)} :
            /\ pc' = "user_gpu"
            /\ calls' = calls + 1
            /\ force_no_window' = force
            /\ returned' = gpu.ret
            /\ _cached_gpu' = gpu.cache
            /\ probes' = [probes EXCEPT !.opengl = @ + gpu.opengl,
                                        !.glut_inits = @ + gpu.glut_inits,
                                        !.platform = @ + gpu.platform,
                                        !.gpu_matcher = @ + gpu.matcher]
            /\ UNCHANGED <<coreVars, recordVars, scriptVars, arkVars, wikiVars, logVars, _cached_cpu, machine>>

call_user_setup ==
    /\ pc \in DetectPcs
    /\ machine # None
    /\ calls < MaxCalls
    /\ \E cpu \in {user_cpu(_cached_cpu, machine, MODEL_TO_CPU)},
          gpu \in {user_gpu(_cached_gpu, FALSE, machine, MODEL_TO_GPU)} :
           /\ pc' = "user_setup"
           /\ calls' = calls + 1
           /\ force_no_window' = FALSE
           /\ returned' = user_setup(cpu, gpu, machine)
           /\ _cached_cpu' = cpu.cache
           /\ _cached_gpu' = gpu.cache
           /\ probes' = [probes EXCEPT !.cpuinfo = @ + cpu.cpuinfo,
                                       !.cpu_matcher = @ + cpu.matcher,
                                       !.opengl = @ + gpu.opengl,
                                       !.glut_inits = @ + gpu.glut_inits,
                                       !.platform = @ + gpu.platform,
                                       !.gpu_matcher = @ + gpu.matcher]
           /\ UNCHANGED <<coreVars, recordVars, scriptVars, arkVars, wikiVars, logVars, machine>>

NextDetect ==
    \/ call_user_cpu
    \/ call_user_gpu
    \/ call_user_setup

SpecDetect == InitOnMachine /\ [][NextDetect]_vars

-----------------------------------------------------------------------------
(* A run of update-cpu-database: __main__ up to the call of               *)
(* intel_ark.parse, the loop of parse step by step, and the rest of        *)
(* __main__ once parse has returned                                        *)

InitOldDatabase ==
    /\ pc = "idle"
    /\ MODEL_TO_CPU = <<>>
    /\ MODEL_TO_GPU = <<>>
    /\ database = <<>>
    /\ unexact_model = <<>>
    /\ component = None
    /\ value = None
    /\ unit = None
    /\ result = None
    /\ cpu_clutter = <<>>
    /\ gpu_clutter = <<>>
    /\ ram_clutter = <<>>
    /\ setup = None
    /\ record = None
    /\ records = <<>>
    /\ cpu_database \in OldCpuDatabases
    /\ gpu_database = Missing
    /\ loaded = <<>>
    /\ InitScripts
    /\ InitLogger
    /\ InitDetect
    /\ machine = None

\* mutant: the known CPUs are told by their model names
old_ids_by_model == {old_cpus[i].model : i \in DOMAIN old_cpus}

\* the product IDs of old_cpus, as parse keeps them
old_ids == {old_cpus[i].product_id : i \in DOMAIN old_cpus}

\* continue: on to the next product ID
Continue ==
    /\ pc' = "ark.loop"
    /\ current_id' = current_id + 1

\* the loop is left: progress.finish(), return cpus, and __main__ extends,
\* sorts and saves
ReturnAndSave ==
    LET all == sort_by_model(collected \o old_cpus)
    IN  /\ pc' = "update-cpu-database"
        /\ progress' = None
        /\ collected' = all
        /\ cpu_database' = save_cpus(all)
        /\ exit' = None

\* an exception leaves parse and ends the script
Propagate(exception) ==
    /\ pc' = "update-cpu-database"
    /\ exit' = exception
    /\ UNCHANGED <<collected, cpu_database, progress>>

update_cpu_database_start ==
    /\ pc = "idle"
    /\ pc' = "ark.loop"
    /\ old_cpus' = sort_by_product_id(load_cpus(cpu_database))
    /\ collected' = <<>>
    /\ progress' = Progress(0, ENDID - STARTID)
    /\ current_id' = STARTID
    /\ UNCHANGED <<nonArkVars, cpu_database, exit, response, requested, limited,
                   slept, interrupt>>

ark_skip_known ==
    /\ pc = "ark.loop"
    /\ current_id <= ENDID
    /\ IntLit(current_id) \in old_ids
    /\ Continue
    /\ UNCHANGED <<nonArkVars, cpu_database, exit, old_cpus, collected, response,
                   requested, limited, slept, progress, interrupt>>

ark_request ==
    /\ pc = "ark.loop"
    /\ current_id <= ENDID
    /\ IntLit(current_id) \notin old_ids
    /\ \E outcome \in RequestOutcomes :
        /\ progress' = [progress EXCEPT !.current = @ + 1]
        /\ requested' = [requested EXCEPT ![current_id] = @ + 1]
        /\ response' = outcome
        /\ IF outcome.t = "raise"
           THEN Continue
           ELSE pc' = "ark.status" /\ UNCHANGED current_id
        /\ UNCHANGED <<nonArkVars, cpu_database, exit, old_cpus, collected, limited,
                       slept, interrupt>>

ark_request_interrupted ==
    /\ pc = "ark.loop"
    /\ current_id <= ENDID
    /\ IntLit(current_id) \notin old_ids
    /\ requested' = [requested EXCEPT ![current_id] = @ + 1]
    /\ response' = Raise("KeyboardInterrupt")
    /\ interrupt' = "request"
    /\ ReturnAndSave
    /\ UNCHANGED <<nonArkVars, old_cpus, current_id, limited, slept>>

ark_loop_done ==
    /\ pc = "ark.loop"
    /\ current_id > ENDID
    /\ ReturnAndSave
    /\ UNCHANGED <<nonArkVars, old_cpus, current_id, response, requested, limited,
                   slept, interrupt>>

ark_status ==
    /\ pc = "ark.status"
    /\ IF response.status_code = 404
       THEN Continue /\ UNCHANGED <<limited, slept>>
       ELSE IF response.status_code # 200
       THEN /\ limited' = limited \cup {current_id}
            /\ slept' = slept + RATE_LIMIT_DELAY
            /\ pc' = "ark.title"
            /\ UNCHANGED current_id
       ELSE /\ pc' = "ark.title"
            /\ UNCHANGED <<current_id, limited, slept>>
    /\ UNCHANGED <<nonArkVars, cpu_database, exit, old_cpus, collected, response,
                   requested, progress, interrupt>>

ark_sleep_interrupted ==
    /\ pc = "ark.status"
    /\ response.status_code \notin {200, 404}
    /\ limited' = limited \cup {current_id}
    /\ interrupt' = "sleep"
    /\ Propagate(Raise("KeyboardInterrupt"))
    /\ UNCHANGED <<nonArkVars, old_cpus, current_id, response, requested, slept>>

ark_title ==
    /\ pc = "ark.title"
    /\ IF title_names_processor(response.page)
       THEN pc' = "ark.parse_cpu" /\ UNCHANGED current_id
       ELSE Continue
    /\ UNCHANGED <<nonArkVars, cpu_database, exit, old_cpus, collected, response,
                   requested, limited, slept, progress, interrupt>>

\* the bare except around the title takes the keyboard interrupt as well
ark_title_interrupted ==
    /\ pc = "ark.title"
    /\ interrupt' = "title"
    /\ Continue
    /\ UNCHANGED <<nonArkVars, cpu_database, exit, old_cpus, collected, response,
                   requested, limited, slept, progress>>

ark_parse_cpu ==
    /\ pc = "ark.parse_cpu"
    /\ LET cpu == parse_cpu(response.page, current_id)
       IN  IF cpu.t = "raise"
           THEN Propagate(cpu) /\ UNCHANGED current_id
           ELSE /\ Continue
                /\ collected' = IF cpu.value = None THEN collected ELSE Append(collected, cpu.value)
                /\ UNCHANGED <<cpu_database, exit, progress>>
    /\ UNCHANGED <<nonArkVars, old_cpus, response, requested, limited, slept,
                   interrupt>>

ark_parse_cpu_interrupted ==
    /\ pc = "ark.parse_cpu"
    /\ interrupt' = "parse_cpu"
    /\ Propagate(Raise("KeyboardInterrupt"))
    /\ UNCHANGED <<nonArkVars, old_cpus, current_id, response, requested, limited,
                   slept>>

NextUpdateCpu ==
    \/ update_cpu_database_start
    \/ ark_skip_known
    \/ ark_request
    \/ ark_request_interrupted
    \/ ark_loop_done
    \/ ark_status
    \/ ark_sleep_interrupted
    \/ ark_title
    \/ ark_title_interrupted
    \/ ark_parse_cpu
    \/ ark_parse_cpu_interrupted

SpecUpdateCpu == InitOldDatabase /\ [][NextUpdateCpu]_vars

-----------------------------------------------------------------------------
(* Calls of wiki_gpu_tables.extract_gpus and runs of update-gpu-database *)

\* the state before a run of an update script; each script reads and writes
\* its own database only, so one of the two is left out
InitOldDatabases ==
    /\ pc = "idle"
    /\ MODEL_TO_CPU = <<>>
    /\ MODEL_TO_GPU = <<>>
    /\ database = <<>>
    /\ unexact_model = <<>>
    /\ component = None
    /\ value = None
    /\ unit = None
    /\ result = None
    /\ cpu_clutter = <<>>
    /\ gpu_clutter = <<>>
    /\ ram_clutter = <<>>
    /\ setup = None
    /\ record = None
    /\ records = <<>>
    /\ \/ cpu_database \in OldCpuDatabases /\ gpu_database = Missing
       \/ cpu_database = Missing /\ gpu_database \in OldGpuDatabases
    /\ loaded = <<>>
    /\ InitScripts
    /\ InitLogger
    /\ InitDetect
    /\ machine = None

\* the state before a call of extract_gpus: a GPU database of one GPU
InitOldGpuDatabase ==
    /\ InitOldDatabases
    /\ cpu_database = Missing
    /\ gpu_database = save_gpus(<<OldGpu(<<"a">>)>>)

call_extract_gpus ==
    /\ pc = "idle"
    /\ \E tables \in TableLists, ignore_models \in IgnoreLists,
          vendor \in {gpu_vendors[1], gpu_vendors[3]} :
        \E got \in {extract_gpus(tables, ignore_models, vendor)} :
            /\ pc' = "extract_gpus"
            /\ given_tables' = tables
            /\ given_models' = ignore_models
            /\ given_vendor' = vendor
            /\ extracted' = got.out
            /\ progress' = got.progress
    /\ UNCHANGED <<coreVars, detectVars, recordVars, scriptVars, logVars, old_cpus,
                   collected, current_id, response, requested, limited, slept,
                   interrupt, read_html, old_gpus, new_gpus>>

\* __main__ of update-gpu-database
run_update_gpu_database ==
    /\ pc = "idle"
    /\ \E pages \in Pages :
        \E old \in {sort_by_model(load_gpus(gpu_database))} :
          \E parsed \in {vendor_loop(pages, 1, old, <<>>)} :
            /\ pc' = "update-gpu-database"
            /\ read_html' = pages
            /\ old_gpus' = old
            /\ progress' = parsed.progress
            /\ IF parsed.out.t = "raise"
               THEN /\ exit' = parsed.out
                    /\ UNCHANGED <<new_gpus, gpu_database>>
               ELSE /\ exit' = None
                    /\ new_gpus' = sort_by_model(parsed.out.value \o old)
                    /\ gpu_database' = save_gpus(sort_by_model(parsed.out.value \o old))
    /\ UNCHANGED <<coreVars, detectVars, logVars, record, records, loaded, source,
                   conv, cpu_database, old_cpus, collected, current_id, response,
                   requested, limited, slept, interrupt, given_tables,
                   given_models, given_vendor, extracted>>

NextWiki ==
    \/ call_extract_gpus
    \/ run_update_gpu_database

SpecWiki == InitOldGpuDatabase /\ [][NextWiki]_vars

\* a run of either update script
NextUpdate ==
    \/ NextUpdateCpu
    \/ run_update_gpu_database

SpecUpdate == InitOldDatabases /\ [][NextUpdate]_vars

-----------------------------------------------------------------------------
(* Calls of the matchers with letters of both cases.  The packaged         *)
(* databases hold casefolded models; what the caller or the machine gives  *)
(* is spelled as it comes.                                                 *)

CasedChars == {"a", "A"}

CasedKeys == Strs(CasedChars, MaxKeyLen) \ {<<>>}

CasedDatabases ==
    {Dict(keys) : keys \in {ks \in UNION {[1..n -> CasedKeys] : n \in 0..MaxDbSize} :
                               \A i, j \in 1..Len(ks) : i # j => ks[i] # ks[j]}}

CasedQueries == Strs(CasedChars, MaxQueryLen)

CasedClutters == {<<"A", "B">>, <<"a", "B">>, <<"a", "b">>, <<"X">>}

InitCased ==
    /\ pc = "idle"
    /\ MODEL_TO_CPU = Dict(<<<<"a">>, <<"a", "b">>>>)
    /\ MODEL_TO_GPU = Dict(<<<<"a", "b">>, <<"b">>>>)
    /\ database = <<>>
    /\ unexact_model = <<>>
    /\ component = None
    /\ value = None
    /\ unit = None
    /\ result = None
    /\ cpu_clutter = <<>>
    /\ gpu_clutter = <<>>
    /\ ram_clutter = <<>>
    /\ setup = None
    /\ InitRecords
    /\ InitScripts
    /\ InitLogger
    /\ InitDetect
    /\ machine = Machine(PyStr(<<"A", "B">>), GlutMissing, "Darwin", None, IntLit(8))

call_find_by_model_cased ==
    /\ pc = "idle"
    /\ \E db \in CasedDatabases, query \in CasedQueries :
        /\ pc' = "_find_by_model"
        /\ database' = db
        /\ unexact_model' = query
        /\ component' = _find_by_model(db, query)
        /\ UNCHANGED <<globalVars, convVars, clutterVars, recordVars, scriptVars,
                       arkVars, wikiVars, logVars, detectVars>>

call_setup_from_clutter_cased ==
    /\ pc = "idle"
    /\ \E cpu \in CasedClutters, gpu \in CasedClutters :
        /\ pc' = "setup_from_clutter"
        /\ cpu_clutter' = cpu
        /\ gpu_clutter' = gpu
        /\ ram_clutter' = <<"8", " ", "G", "B">>
        /\ setup' = setup_from_clutter(MODEL_TO_CPU, MODEL_TO_GPU, cpu, gpu,
                                       <<"8", " ", "G", "B">>)
        /\ UNCHANGED <<globalVars, matchVars, convVars, recordVars, scriptVars,
                       arkVars, wikiVars, logVars, detectVars>>

NextCase ==
    \/ call_find_by_model_cased
    \/ call_setup_from_clutter_cased
    \/ call_user_cpu

SpecCase == InitCased /\ [][NextCase]_vars

-----------------------------------------------------------------------------
(* Calls of dogelog *)

MaxFiles == 2

Messages == {<<"m">>}

BarEnds == {2}

nonLogVars == <<coreVars, detectVars, recordVars, scriptVars, wikiVars, old_cpus,
                collected, current_id, response, requested, limited, slept,
                interrupt>>

\* the files before a call writes
Unwritten(fs) == [i \in DOMAIN fs |-> [fs[i] EXCEPT !.lines = <<>>]]

\* the call of close_if_needed at the start of init, init_debug and
\* init_colorless, which write nothing
CloseIfNeeded ==
    \E closed \in {close_if_needed(Unwritten(files), logfile)} :
        /\ files' = closed.files
        /\ logfile' = closed.logfile
        /\ stdout' = <<>>
        /\ stderr' = <<>>
        /\ UNCHANGED <<nonLogVars, progress, last_print_len, logged>>

call_init ==
    /\ pc' = "init"
    /\ CloseIfNeeded
    /\ mode' = "NORMAL"
    /\ filterlevel' = INFO
    /\ last_init' = [call |-> "init", raised |-> FALSE]

call_init_debug ==
    /\ pc' = "init_debug"
    /\ CloseIfNeeded
    /\ mode' = "NORMAL"
    /\ filterlevel' = DEBUG
    /\ last_init' = [call |-> "init_debug", raised |-> FALSE]

call_init_colorless ==
    /\ pc' = "init_colorless"
    /\ CloseIfNeeded
    /\ mode' = "NONE"
    /\ filterlevel' = INFO
    /\ last_init' = [call |-> "init_colorless", raised |-> FALSE]

\* init_file; open gives a file or raises OSError
call_init_file ==
    /\ pc' = "init_file"
    /\ \E closed \in {close_if_needed(Unwritten(files), logfile)}, opened \in BOOLEAN :
        /\ opened => Len(files) < MaxFiles
        /\ mode' = "EXTENSIVE"
        /\ filterlevel' = DEBUG
        /\ IF opened
           THEN /\ files' = Append(closed.files, [open |-> TRUE, lines |-> <<NewLogBegins>>])
                /\ logfile' = File(Len(files) + 1)
           ELSE /\ files' = closed.files
                /\ logfile' = closed.logfile
        /\ last_init' = [call |-> "init_file", raised |-> ~opened]
        /\ stdout' = <<>>
        /\ stderr' = <<>>
        /\ UNCHANGED <<nonLogVars, progress, last_print_len, logged>>

\* log
log(message, level) ==
    /\ logged' = [message |-> message, level |-> level]
    /\ IF below_filterlevel(level, filterlevel)
       THEN /\ stdout' = <<>>
            /\ stderr' = <<>>
            /\ files' = Unwritten(files)
            /\ UNCHANGED last_print_len
       ELSE \E target \in {log_target(level, logfile, progress)},
               logentry \in {LogEntry(mode, level, message)} :
            CASE target = "logfile" ->
                    /\ files' = [Unwritten(files) EXCEPT ![logfile.index].lines = <<logentry>>]
                    /\ stdout' = <<>>
                    /\ stderr' = <<>>
                    /\ UNCHANGED last_print_len
              [] target = "stderr" ->
                    /\ stderr' = <<logentry>>
                    /\ stdout' = <<>>
                    /\ files' = Unwritten(files)
                    /\ UNCHANGED last_print_len
              [] target = "stdout" /\ progress = None ->
                    /\ stdout' = <<logentry>>
                    /\ stderr' = <<>>
                    /\ files' = Unwritten(files)
                    /\ UNCHANGED last_print_len
              [] target = "stdout" /\ progress # None ->
                    /\ stdout' = _delete_on_stdout(last_print_len, logfile)
                                    \o <<logentry, status(mode, progress, logfile)>>
                    /\ last_print_len' = status_len(mode, progress)
                    /\ stderr' = <<>>
                    /\ files' = Unwritten(files)
    /\ UNCHANGED <<nonLogVars, progress, mode, filterlevel, logfile, last_init>>

call_debug ==
    /\ pc' = "log"
    /\ \E message \in Messages : log(message, DEBUG)

call_info ==
    /\ pc' = "log"
    /\ \E message \in Messages : log(message, INFO)

call_error ==
    /\ pc' = "log"
    /\ \E message \in Messages : log(message, ERROR)

\* Progress(message, end)
new_Progress ==
    /\ pc' = "Progress"
    /\ \E end \in BarEnds : progress' = Progress(0, end)
    /\ last_print_len' = 0
    /\ stdout' = <<>>
    /\ stderr' = <<>>
    /\ files' = Unwritten(files)
    /\ UNCHANGED <<nonLogVars, mode, filterlevel, logfile, logged, last_init>>

\* Progress.stack; the model stops at the end of the bar
call_stack ==
    /\ pc' = "stack"
    /\ progress # None
    /\ progress.current < progress.end
    /\ \E bar \in {[progress EXCEPT !.current = @ + 1]} :
        /\ progress' = bar
        /\ IF logfile # None
           THEN /\ files' = [Unwritten(files) EXCEPT ![logfile.index].lines =
                                                    <<status(mode, bar, logfile)>>]
                /\ stdout' = <<>>
                /\ UNCHANGED last_print_len
           ELSE /\ stdout' = _delete_on_stdout(last_print_len, logfile)
                                \o <<status(mode, bar, logfile)>>
                /\ last_print_len' = status_len(mode, bar)
                /\ files' = Unwritten(files)
    /\ stderr' = <<>>
    /\ UNCHANGED <<nonLogVars, mode, filterlevel, logfile, logged, last_init>>

\* Progress.finish
call_finish ==
    /\ progress # None
    /\ pc' = "finish"
    /\ progress' = None
    /\ IF logfile = None
       THEN /\ stdout' = <<[kind |-> "newline"]>>
            /\ last_print_len' = 0
       ELSE /\ stdout' = <<>>
            /\ UNCHANGED last_print_len
    /\ stderr' = <<>>
    /\ files' = Unwritten(files)
    /\ UNCHANGED <<nonLogVars, mode, filterlevel, logfile, logged, last_init>>

NextLog ==
    \/ call_init
    \/ call_init_debug
    \/ call_init_colorless
    \/ call_init_file
    \/ call_debug
    \/ call_info
    \/ call_error
    \/ new_Progress
    \/ call_stack
    \/ call_finish

SpecLog == InitIdle /\ [][NextLog]_vars

(* Every call the model knows, from any packaged state *)

Next == NextUnits \/ NextMatch \/ NextFind \/ NextClutter \/ NextRecords
          \/ NextConvert \/ NextDetect \/ NextUpdateCpu \/ NextWiki \/ NextCase
          \/ NextLog

Spec == InitPackaged /\ [][Next]_vars

-----------------------------------------------------------------------------
(* What the claims speak of *)

\* x and y have a common contiguous substring of length k
CommonAt(x, y, k) ==
    \E i \in 1..(Len(x) - k + 1), j \in 1..(Len(y) - k + 1) :
        \A d \in 0..(k - 1) : x[i + d] = y[j + d]

\* the length of the longest contiguous common substring of x and y
LongestCommon(x, y) ==
    CHOOSE k \in 0..Len(x) :
        /\ k > 0 => CommonAt(x, y, k)
        /\ \A m \in (k + 1)..Len(x) : ~CommonAt(x, y, m)

\* key occurs verbatim inside query
Contained(key, query) == Len(key) > 0 /\ LongestCommon(key, query) = Len(key)

BestLength(db, query) ==
    CHOOSE n \in {LongestCommon(db[i].key, query) : i \in 1..Len(db)} \cup {0} :
        \A i \in 1..Len(db) : LongestCommon(db[i].key, query) <= n

ByteFactorDigits(w) ==
    CASE w = <<"b">> -> <<1>>
      [] w \in {<<"k","b">>, <<"k","i","b">>} -> <<1,0,2,4>>
      [] w \in {<<"m","b">>, <<"m","i","b">>} -> <<1,0,4,8,5,7,6>>
      [] w \in {<<"g","b">>, <<"g","i","b">>} -> <<1,0,7,3,7,4,1,8,2,4>>
      [] w \in {<<"t","b">>, <<"t","i","b">>} -> <<1,0,9,9,5,1,1,6,2,7,7,7,6>>

HertzFactorDigits(w) ==
    CASE w = <<"k","h","z">> -> <<1,0,0,0>>
      [] w = <<"m","h","z">> -> <<1,0,0,0,0,0,0>>
      [] w = <<"g","h","z">> -> <<1,0,0,0,0,0,0,0,0,0>>
      [] w = <<"t","h","z">> -> <<1,0,0,0,0,0,0,0,0,0,0,0,0>>

ByteSpellings == UNION {CaseSpellings(w) : w \in ByteWords}

HertzSpellings == UNION {CaseSpellings(w) : w \in HertzWords}

BytesCalls == {"human_readable_to_bytes", "scripts.human_readable_to_bytes"}

HertzCalls == {"human_readable_to_hertz", "scripts.human_readable_to_hertz"}

FindCalls == {"find_cpu_by_model", "find_gpu_by_model"}

Whitespace == {" ", "\t"}

\* the maximal runs of non-whitespace characters of s, left to right
RECURSIVE Words(_)
Words(s) ==
    IF s = <<>> THEN <<>>
    ELSE IF s[1] \in Whitespace THEN Words(Tail(s))
    ELSE LET n == CHOOSE m \in 1..Len(s) :
                      /\ \A i \in 1..m : s[i] \notin Whitespace
                      /\ m < Len(s) => s[m + 1] \in Whitespace
         IN  <<SubSeq(s, 1, n)>> \o Words(SubSeq(s, n + 1, Len(s)))

SingleSpaced(ws) == Join(ws, [i \in 1..Len(ws) |-> <<" ">>])

\* a token made of decimal digits only
IsIntegerToken(tok) == tok # <<>> /\ \A i \in 1..Len(tok) : tok[i] \in DigitChars

IntegerTokens(ws) == {i \in 1..Len(ws) : IsIntegerToken(ws[i])}

\* the ram the claims expect of the tokens ws: the leftmost integer token
\* with the token after it as the unit, None when there is no integer token
ExpectedRam(ws) ==
    IF IntegerTokens(ws) = {} THEN None
    ELSE LET i == CHOOSE n \in IntegerTokens(ws) : \A m \in IntegerTokens(ws) : n <= m
         IN  human_readable_to_bytes(int(ws[i]),
                 IF i = Len(ws) THEN PyStr(<<"b">>) ELSE PyStr(ws[i + 1]))

-----------------------------------------------------------------------------
(* The claims *)

\* C1 (as claimed): whenever some key of the database shares a character with
\* the query, _find_by_model returns the record of a key whose longest common
\* substring with the query is at least as long as that of every other key.
C1_ReturnsLongestMatch ==
    (pc = "_find_by_model" /\ BestLength(database, unexact_model) > 0) =>
        \E i \in 1..Len(database) :
            /\ component = database[i].rec
            /\ LongestCommon(database[i].key, unexact_model)
                   = BestLength(database, unexact_model)

\* C2 (as claimed): among the keys whose longest common substring with the
\* query has the maximal length, _find_by_model returns the record of the
\* one that comes first in the database's iteration order.
C2_FirstMaximalKeyWins ==
    (pc = "_find_by_model" /\ BestLength(database, unexact_model) > 0) =>
        \E i \in 1..Len(database) :
            /\ component = database[i].rec
            /\ LongestCommon(database[i].key, unexact_model)
                   = BestLength(database, unexact_model)
            /\ \A j \in 1..(i - 1) :
                   LongestCommon(database[j].key, unexact_model)
                       < BestLength(database, unexact_model)

\* C3 (as claimed): _find_by_model returns None exactly when the database is
\* empty or no key shares a character with the query, and a record of the
\* database otherwise.
C3_NoneIffNothingShared ==
    pc = "_find_by_model" =>
        IF database = <<>> \/ BestLength(database, unexact_model) = 0
        THEN component = None
        ELSE \E i \in 1..Len(database) : component = database[i].rec

\* C4 (as claimed): when more than one model of the packaged database is
\* contained in the given string, find_cpu_by_model and find_gpu_by_model
\* return the record of the first such model in the database.
C4_FirstContainedModelWins ==
    pc \in FindCalls =>
        LET hits == {i \in 1..Len(database) : Contained(database[i].key, unexact_model)}
        IN  Cardinality(hits) > 1 =>
                component = database[CHOOSE i \in hits : \A j \in hits : i <= j].rec

C6_HertzTable ==
    /\ pc \in HertzCalls =>
           \A w \in HertzWords :
               unit.s \in CaseSpellings(w) =>
                   result = PyMul(value, PyInt(FALSE, HertzFactorDigits(w)))
    /\ (pc \in HertzCalls /\ value = IntLit(4) /\ unit.s \in CaseSpellings(<<"g","h","z">>)) =>
           result = [t |-> "int", neg |-> FALSE, mag |-> <<4,0,0,0,0,0,0,0,0,0>>]
    /\ pc = "human_readable_to_hertz" =>
           result = scripts_human_readable_to_hertz(value, unit)
    /\ pc = "scripts.human_readable_to_hertz" =>
           result = human_readable_to_hertz(value, unit)

\* C6 witness: human_readable_to_hertz(4, "GHz") has returned 4 * 10^9.
C6_Witness ==
    /\ pc = "human_readable_to_hertz"
    /\ value = IntLit(4)
    /\ unit = PyStr(<<"G","H","z">>)
    /\ result.mag = <<4,0,0,0,0,0,0,0,0,0>>

\* C7: for a unit outside the converter's vocabulary (the empty string and
\* the other converter's units included) both converters return the value
\* unchanged and raise nothing.
C7_UnknownUnitPassesThrough ==
    /\ (pc \in BytesCalls /\ unit.s \notin ByteSpellings) => result = value
    /\ (pc \in HertzCalls /\ unit.s \notin HertzSpellings) => result = value

\* C7 witness: human_readable_to_bytes(8, "GHz") has returned 8.
C7_Witness ==
    /\ pc = "human_readable_to_bytes"
    /\ value = IntLit(8)
    /\ unit = PyStr(<<"G","H","z">>)
    /\ result = IntLit(8)

C9_NoIntegerTokenGivesNone ==
    (pc = "setup_from_clutter" /\ IntegerTokens(Words(ram_clutter)) = {}) =>
        /\ setup.t = "SystemSetup"
        /\ setup.ram = None

\* C9 witness: setup_from_clutter(_, _, "8GB") has returned a setup without ram.
C9_Witness ==
    /\ pc = "setup_from_clutter"
    /\ ram_clutter = <<"8","G","B">>
    /\ setup.t = "SystemSetup"
    /\ setup.ram = None

-----------------------------------------------------------------------------
(* What the claims about the records speak of *)

RECURSIVE LexLeq(_, _)
LexLeq(a, b) ==
    IF a = <<>> THEN TRUE
    ELSE IF a[1] # b[1] THEN a[1] < b[1]
    ELSE LexLeq(Tail(a), Tail(b))

\* a <= b for two magnitudes
MagLeq(a, b) == Len(a) < Len(b) \/ (Len(a) = Len(b) /\ LexLeq(a, b))

FracEq(x, y) == LongTimes(x.num, y.den) = LongTimes(y.num, x.den)

FracLeq(x, y) == MagLeq(LongTimes(x.num, y.den), LongTimes(y.num, x.den))

SumMag(a, b) == StripZeros(AddMag(a, b, 0))

\* 5.30 * 10^9, 10 * 1024^3 and 1440 * 10^6, written out
CpuSpeedBound == <<5, 3, 0, 0, 0, 0, 0, 0, 0, 0>>

VramBound == <<1, 0, 7, 3, 7, 4, 1, 8, 2, 4, 0>>

GpuSpeedBound == <<1, 4, 4, 0, 0, 0, 0, 0, 0, 0>>

\* ((corecount / 8) + corespeed / (5.30 * 10^9)) * 100 / 2 over one denominator
CpuScore(corecount, corespeed) ==
    Frac(LongTimes(SumMag(LongTimes(corecount.mag, CpuSpeedBound),
                         LongTimes(corespeed.mag, <<8>>)), <<1, 0, 0>>),
         LongTimes(LongTimes(<<8>>, CpuSpeedBound), <<2>>))

\* ((vram / (10 * 1024^3)) + corespeed / (1440 * 10^6)) * 100 / 2
GpuScore(vram, corespeed) ==
    Frac(LongTimes(SumMag(LongTimes(vram.mag, GpuSpeedBound),
                         LongTimes(corespeed.mag, VramBound)), <<1, 0, 0>>),
         LongTimes(LongTimes(VramBound, GpuSpeedBound), <<2>>))

SpecFields(r) ==
    IF r.t = "CPU"
    THEN <<r.model, r.product_id, r.vendor, r.corecount, r.corespeed>>
    ELSE <<r.model, r.vendor, r.vram, r.corespeed, r.codename>>

FreshScore(r) ==
    IF r.t = "CPU" THEN CpuScore(r.corecount, r.corespeed)
    ELSE GpuScore(r.vram, r.corespeed)

DistinctModels(D) == \A i, j \in DOMAIN D : i # j => D[i].model # D[j].model

\* C11: a record just constructed has the score of the stated formula; a
\* record built from the same specs under another model name, product id or
\* vendor has the same score; a record built from specs that are no larger
\* has a score that is no larger.
C11_ScoreIsFunctionOfSpecs ==
    /\ pc = "CPU" =>
        /\ FracEq(record.score, CpuScore(record.corecount, record.corespeed))
        /\ \A m \in RecordModels, p \in ProductIds :
              CPU(m, p, Intel, record.corecount, record.corespeed).score = record.score
        /\ \A cc \in CoreCounts, cs \in CoreSpeeds :
              (MagLeq(cc.mag, record.corecount.mag) /\ MagLeq(cs.mag, record.corespeed.mag))
                  => FracLeq(CPU(record.model, record.product_id, Intel, cc, cs).score,
                             record.score)
    /\ pc = "GPU" =>
        /\ FracEq(record.score, GpuScore(record.vram, record.corespeed))
        /\ \A m \in RecordModels, v \in GpuVendors :
              GPU(m, v, record.vram, record.corespeed, <<"x">>).score = record.score
        /\ \A vram \in Vrams, cs \in GpuSpeeds :
              (MagLeq(vram.mag, record.vram.mag) /\ MagLeq(cs.mag, record.corespeed.mag))
                  => FracLeq(GPU(record.model, record.vendor, vram, cs, <<"x">>).score,
                             record.score)

\* a CPU of 8 cores at 5.3 GHz has been constructed, with the score 100
C11_Witness ==
    /\ pc = "CPU"
    /\ record.corecount = IntLit(8)
    /\ record.corespeed.mag = CpuSpeedBound
    /\ FracEq(record.score, Frac(<<1, 0, 0>>, <<1>>))

\* C12: when the list given to save_cpus (save_gpus) has pairwise distinct
\* model names, the list load_cpus (load_gpus) reads back from the written
\* file has the same length, the same models and spec fields at the same
\* positions, and each score is the one the formula gives for the loaded
\* specs, whatever score the saved record carried.
C12_RoundTripRecomputesScore ==
    (pc \in {"load_cpus", "load_gpus"} /\ DistinctModels(records)) =>
        /\ Len(loaded) = Len(records)
        /\ \A i \in DOMAIN loaded :
              /\ SpecFields(loaded[i]) = SpecFields(records[i])
              /\ FracEq(loaded[i].score, FreshScore(loaded[i]))

\* two CPUs of distinct names were saved and loaded, the first with a score
\* that was not the score of its specs
C12_Witness ==
    /\ pc = "load_cpus"
    /\ Len(records) = 2
    /\ DistinctModels(records)
    /\ ~FracEq(records[1].score, FreshScore(records[1]))
    /\ FracEq(loaded[1].score, FreshScore(records[1]))

-----------------------------------------------------------------------------
(* What the claims about the database scripts speak of *)

\* the keys of the top-level object of a database file, in file order
FileKeys(file) == [i \in DOMAIN file.members |-> load_str(file.members[i].key)]

Ascending(keys) == \A i \in 1..(Len(keys) - 1) : str_lt(keys[i], keys[i + 1])

ScriptWroteCpuDatabase ==
    /\ pc \in {"convert-divinity76s-database", "update-cpu-database"}
    /\ exit = None
    /\ cpu_database # Missing

-----------------------------------------------------------------------------
(* What the claims about the hardware detection speak of *)

Stored(cache) == cache.t # "int"

OpenGLFails == force_no_window \/ machine.glut \in {GlutMissing, NoContext}

NoGpuLine ==
    /\ machine.system = "Linux"
    /\ machine.command.t = "return"
    /\ \A i \in DOMAIN machine.command.value : ~machine.command.value[i].vga

CommandFails == machine.system \in {"Linux", "Windows"} /\ machine.command.t = "raise"

Unsupported == machine.system \notin {"Linux", "Windows"}

\* C15: once a cache holds a stored result, no step changes it, no step
\* asks cpuinfo (for the GPU: starts the OpenGL or the platform probe) or
\* runs the matcher for it again, and a call of user_cpu (user_gpu, with
\* either value of force_no_window) returns exactly the stored value; the
\* setup user_setup returns carries the stored values.
C15_StoredResultIsFinal ==
    [][/\ Stored(_cached_cpu) =>
            /\ _cached_cpu' = _cached_cpu
            /\ probes'.cpuinfo = probes.cpuinfo
            /\ probes'.cpu_matcher = probes.cpu_matcher
            /\ pc' = "user_cpu" => returned' = _cached_cpu
            /\ (pc' = "user_setup" /\ returned'.t = "SystemSetup")
                   => returned'.cpu = _cached_cpu
       /\ Stored(_cached_gpu) =>
            /\ _cached_gpu' = _cached_gpu
            /\ probes'.opengl = probes.opengl
            /\ probes'.glut_inits = probes.glut_inits
            /\ probes'.platform = probes.platform
            /\ probes'.gpu_matcher = probes.gpu_matcher
            /\ pc' = "user_gpu" => returned' = _cached_gpu
            /\ (pc' = "user_setup" /\ returned'.t = "SystemSetup")
                   => returned'.gpu = _cached_gpu
      ]_vars

\* two calls of user_gpu were made; the first matched the probed model and
\* stored the not-found value None, the second returned it without a probe
C15_Witness ==
    /\ pc = "user_gpu"
    /\ calls = 2
    /\ _cached_gpu = None
    /\ returned = None
    /\ probes.cpuinfo = 0
    /\ probes.gpu_matcher = 1
    /\ probes.opengl + probes.platform = 1

\* C16: GLUT is initialised at most once in a process.
C16_GlutInitialisedAtMostOnce == probes.glut_inits <= 1

\* C17: a call of user_gpu that found nothing cached, on a machine where the
\* OpenGL probe raises or is disabled and the platform probe finds no GPU
\* line, cannot run its command or does not know the platform, returns None.
C17_AllMethodsFailedGivesNone ==
    (/\ pc = "user_gpu"
     /\ ~Stored(_cached_gpu)
     /\ OpenGLFails
     /\ (NoGpuLine \/ CommandFails \/ Unsupported)) => returned = None

-----------------------------------------------------------------------------
(* What the claims about intel_ark.parse speak of *)

\* the step is a request that timed out or could not connect
RequestFailed ==
    /\ requested' # requested
    /\ response'.t = "raise"
    /\ response'.exc \in {"Timeout", "ConnectionError"}

\* the page at hand has no title
TitleMissing == pc = "ark.title" /\ response.page.title = None

\* the page at hand lacks CoreCount or ClockSpeed or has an unparsable number
PageMalformed ==
    /\ pc = "ark.parse_cpu"
    /\ parse_cpu(response.page, current_id).t = "raise"

RateLimited == pc = "ark.status" /\ response.status_code \notin {200, 404}

\* the loop goes on to the next ID with the CPUs it had
SkippedOnly ==
    /\ pc' = "ark.loop"
    /\ current_id' = current_id + 1
    /\ collected' = collected
    /\ exit' = None

\* C18: a step that meets a failed request, a page without title or a
\* malformed CPU page, and no keyboard interrupt, leaves the loop at the
\* next product ID with the collected CPUs unchanged; a step that meets an
\* HTTP error status keeps the collected CPUs and the run alive.
C18_FailureSkipsOnlyThatId ==
    [][/\ (interrupt' = interrupt /\ (RequestFailed \/ TitleMissing \/ PageMalformed))
            => SkippedOnly
       /\ (interrupt' = interrupt /\ RateLimited)
            => (collected' = collected /\ exit' = None /\ pc' # "update-cpu-database")
      ]_vars

\* C19: once the loop has moved past a product ID whose response was rate
\* limited, that ID has been requested exactly twice; no ID is ever
\* requested more than twice.
C19_RateLimitedIdRequestedAgain ==
    /\ \A id \in limited :
          (current_id > id /\ interrupt = "none" /\ exit = None) => requested[id] = 2
    /\ \A id \in DOMAIN requested : requested[id] <= 2

\* C20: once a keyboard interrupt has arrived, the run is over without an
\* exception, the progress bar is finished, and the file holds the CPUs
\* collected so far together with the old ones.
C20_InterruptReturnsPartialResult ==
    interrupt # "none" =>
        /\ pc = "update-cpu-database"
        /\ exit = None
        /\ progress = None
        /\ cpu_database = save_cpus(collected)
        /\ \A i \in DOMAIN old_cpus : \E j \in DOMAIN collected : collected[j] = old_cpus[i]

\* the positions inside the loop of intel_ark.parse
InParse == pc \in {"ark.loop", "ark.status", "ark.title", "ark.parse_cpu"}

\* the product IDs of the CPUs loaded from the old database
KnownIds == {old_cpus[i].product_id : i \in DOMAIN old_cpus}

\* the product IDs the loop has gone past
Visited == {id \in STARTID..ENDID : id < current_id}

\* C21: the loop of intel_ark.parse goes through the product IDs upwards one
\* by one from STARTID and never beyond ENDID + 1; no ID is requested more
\* than once; an ID that is the product_id of a CPU in old_cpus is never
\* requested; an ID is requested only once the loop is at it; and while
\* parse runs its list holds no CPU whose product_id is in old_cpus, so at
\* the return it holds none either.
C21_AscendingOnceAndOldSkipped ==
    /\ [](/\ current_id \in STARTID..(ENDID + 1)
          /\ \A id \in STARTID..ENDID :
                /\ requested[id] <= 1
                /\ requested[id] = 1 => (IntLit(id) \notin KnownIds /\ id <= current_id)
          /\ InParse =>
                \A i \in DOMAIN collected :
                    /\ collected[i].product_id \notin KnownIds
                    /\ \E id \in Visited : collected[i].product_id = IntLit(id))
    /\ [][InParse => current_id' \in {current_id, current_id + 1}]_vars

\* a complete run past a known ID and a new CPU
C21_Witness ==
    /\ pc = "update-cpu-database"
    /\ exit = None
    /\ interrupt = "none"
    /\ current_id = ENDID + 1
    /\ \E id \in STARTID..ENDID : IntLit(id) \in KnownIds /\ requested[id] = 0
    /\ \E id \in STARTID..ENDID : requested[id] = 1
    /\ Len(collected) > Len(old_cpus)

-----------------------------------------------------------------------------
(* extract_gpus and the models it is told to ignore *)

\* the model names the caller of extract_gpus passed as ignore_models, be
\* they names or GPU objects
GivenModels ==
    {IF given_models[i].t = "str" THEN given_models[i].s ELSE given_models[i].model :
        i \in DOMAIN given_models}

\* C22: the list extract_gpus returns holds no GPU whose model is among the
\* models passed to it as ignore_models.
C22_KnownModelsLeftOut ==
    (pc = "extract_gpus" /\ extracted.t = "return") =>
        \A i \in DOMAIN extracted.value : extracted.value[i].model \notin GivenModels

-----------------------------------------------------------------------------
(* extract_gpus and the rows it cannot parse *)

\* the columns extract_gpus finds in a table
FoundIn(table) == column_loop(table.columns, 1, NoIndices)

\* what parse_gpu makes of the rows 1..r, one by one
RECURSIVE RowsParsed(_, _, _)
RowsParsed(rows, indices, r) ==
    IF r = 0 THEN <<>>
    ELSE Append(RowsParsed(rows, indices, r - 1), parse_gpu(rows[r], indices, given_vendor))

\* what parse_gpu makes of the rows of a table, one by one; no rows for a
\* table that is no GPU table
TableParsed(table) ==
    LET rows_of(found) ==
            IF found.t = "indices" /\ ~found.skip_table /\ ~unfound(found.indices, given_vendor)
            THEN RowsParsed(table.rows, found.indices, Len(table.rows))
            ELSE <<>>
    IN  rows_of(FoundIn(table))

\* the same for each of the tables 1..n extract_gpus was given
RECURSIVE TablesParsed(_)
TablesParsed(n) ==
    IF n = 0 THEN <<>> ELSE Append(TablesParsed(n - 1), TableParsed(given_tables[n]))

\* an outcome of parse_gpu that the except clause of the row loop catches
IsCaught(gpu) == gpu.t = "raise" /\ gpu.exc \in {"ValueError", "IndexError"}

\* the outcomes above the first caught one
RECURSIVE AboveCaught(_)
AboveCaught(parsed) ==
    IF parsed = <<>> THEN <<>>
    ELSE IF IsCaught(parsed[1]) THEN <<>>
    ELSE <<parsed[1]>> \o AboveCaught(Tail(parsed))

\* the GPUs among the outcomes, in their order
RECURSIVE GpusOf(_)
GpusOf(parsed) ==
    IF parsed = <<>> THEN <<>>
    ELSE (IF parsed[1].t = "return" THEN <<parsed[1].value>> ELSE <<>>)
            \o GpusOf(Tail(parsed))

\* every GPU of every table
RECURSIVE EveryGpu(_)
EveryGpu(parsed) ==
    IF parsed = <<>> THEN <<>>
    ELSE GpusOf(parsed[1]) \o EveryGpu(Tail(parsed))

\* of each table the GPUs above its first caught row
RECURSIVE GpusAboveCaught(_)
GpusAboveCaught(parsed) ==
    IF parsed = <<>> THEN <<>>
    ELSE GpusOf(AboveCaught(parsed[1])) \o GpusAboveCaught(Tail(parsed))

\* no column makes extract_gpus raise, and every row that raises is caught
NothingElseRaises(parsed) ==
    /\ \A n \in DOMAIN given_tables : FoundIn(given_tables[n]).t = "indices"
    /\ \A n \in DOMAIN parsed : \A r \in DOMAIN parsed[n] :
            parsed[n][r].t = "raise" => IsCaught(parsed[n][r])

ExtractReturned == pc = "extract_gpus" /\ extracted.t = "return"

\* C27 as stated: a row whose parsing raises ValueError or IndexError is
\* skipped on its own, so extract_gpus returns the GPUs of every row that
\* can be parsed, the rows below such a row and the later tables included.
C27_FailingRowSkippedAlone ==
    ExtractReturned => extracted.value = EveryGpu(TablesParsed(Len(given_tables)))

\* C27, amended: a row whose parsing raises ValueError or IndexError ends
\* the walk through its table.  extract_gpus does not raise for it; it
\* returns, table by table, the GPUs of the rows above the first such row:
\* the GPUs collected before it are kept, the rows below it in the same
\* table are left out, and the later tables are parsed.
C27_FailingRowEndsItsTable ==
    pc = "extract_gpus" =>
        LET holds(parsed) ==
                /\ extracted.t = "return" => extracted.value = GpusAboveCaught(parsed)
                /\ NothingElseRaises(parsed) => extracted.t = "return"
        IN  holds(TablesParsed(Len(given_tables)))

\* a GPU table whose first row is caught and whose second row could be
\* parsed, after a table that gave a GPU and before one that gives one
C27_Witness ==
    /\ ExtractReturned
    /\ Len(given_tables) = 3
    /\ Len(given_tables[2].rows) = 2
    /\ LET reached(parsed) ==
            /\ Len(parsed[2]) = 2
            /\ IsCaught(parsed[2][1])
            /\ parsed[2][2].t = "return"
            /\ extracted.value = <<parsed[1][1].value, parsed[3][1].value>>
       IN  reached(TablesParsed(3))

-----------------------------------------------------------------------------
(* What the update scripts save *)

\* the keys of a database file are pairwise different
UniqueKeys(file) ==
    \A i, j \in DOMAIN file.members :
        file.members[i].key = file.members[j].key => i = j

UpdateCpuDone == pc = "update-cpu-database" /\ exit = None

UpdateGpuDone == pc = "update-gpu-database" /\ exit = None

\* C26: after a complete run of update-cpu-database or update-gpu-database
\* the saved database has unique keys, and every record loaded from the old
\* database is in it with its model and its old specs, also where a newly
\* scraped record has the same model.
C26_StoredRecordsSurvive ==
    /\ UpdateCpuDone =>
        /\ cpu_database # Missing
        /\ UniqueKeys(cpu_database)
        /\ \A i \in DOMAIN old_cpus :
            \E j \in DOMAIN load_cpus(cpu_database) :
                load_cpus(cpu_database)[j] = old_cpus[i]
    /\ UpdateGpuDone =>
        /\ gpu_database # Missing
        /\ UniqueKeys(gpu_database)
        /\ \A i \in DOMAIN old_gpus :
            \E j \in DOMAIN load_gpus(gpu_database) :
                load_gpus(gpu_database)[j] = old_gpus[i]

\* a complete run of update-gpu-database that scraped a GPU with the model
\* of a stored GPU and other specs
C26_Witness ==
    /\ UpdateGpuDone
    /\ \E i \in DOMAIN old_gpus : \E j \in DOMAIN new_gpus :
        /\ new_gpus[j].model = old_gpus[i].model
        /\ new_gpus[j] # old_gpus[i]

\* the same for update-cpu-database
C26_WitnessCpu ==
    /\ UpdateCpuDone
    /\ \E i \in DOMAIN old_cpus : \E j \in DOMAIN collected :
        /\ collected[j].model = old_cpus[i].model
        /\ collected[j] # old_cpus[i]

-----------------------------------------------------------------------------
(* The matcher and letter case *)

\* the record the matcher is to give for a query taken as it is spelled:
\* that of the first key with the longest common substring, None when no
\* key has a character of the query
AsSpelled(db, query) ==
    IF BestLength(db, query) = 0 THEN None
    ELSE db[CHOOSE i \in 1..Len(db) :
                /\ LongestCommon(db[i].key, query) = BestLength(db, query)
                /\ \A j \in 1..(i - 1) :
                        LongestCommon(db[j].key, query) < BestLength(db, query)].rec

\* C25: for a query below the length at which difflib drops popular
\* characters, _find_by_model gives the record of the first key with the
\* longest common substring, a character of the key and one of the query
\* counting as common only when they are the same character, letter case
\* included; setup_from_clutter gives the CPU and the GPU the matcher finds
\* for its strings as they are spelled, and so does the first user_cpu for
\* the brand string of the machine.
C25_ComparesAsSpelled ==
    /\ (pc = "_find_by_model" /\ Len(unexact_model) < AUTOJUNK_MIN_LEN) =>
            component = AsSpelled(database, unexact_model)
    /\ pc = "setup_from_clutter" =>
            /\ setup.cpu = AsSpelled(MODEL_TO_CPU, cpu_clutter)
            /\ setup.gpu = AsSpelled(MODEL_TO_GPU, gpu_clutter)
    /\ (pc = "user_cpu" /\ calls = 1) =>
            returned = AsSpelled(MODEL_TO_CPU, machine.brand_raw.s)

\* a query whose casefolded spelling would find another record
C25_Witness ==
    /\ pc = "_find_by_model"
    /\ component # None
    /\ component = AsSpelled(database, unexact_model)
    /\ AsSpelled(database, casefold(unexact_model)) # None
    /\ AsSpelled(database, casefold(unexact_model)) # component

\* strings of setup_from_clutter and a brand string that find nothing as
\* they are spelled and would find a record casefolded
C25_WitnessClutter ==
    /\ pc = "setup_from_clutter"
    /\ setup.cpu = None
    /\ AsSpelled(MODEL_TO_CPU, casefold(cpu_clutter)) # None

C25_WitnessBrand ==
    /\ pc = "user_cpu"
    /\ returned = None
    /\ AsSpelled(MODEL_TO_CPU, casefold(machine.brand_raw.s)) # None

-----------------------------------------------------------------------------
(* The logger *)

\* how many log entries a sequence of written things holds
EntriesIn(out) == Cardinality({i \in DOMAIN out : out[i].kind = "entry"})

RECURSIVE EntriesInFiles(_)
EntriesInFiles(fs) ==
    IF fs = <<>> THEN 0 ELSE EntriesIn(fs[1].lines) + EntriesInFiles(Tail(fs))

\* how many log entries the last call wrote
EntriesWritten == EntriesIn(stdout) + EntriesIn(stderr) + EntriesInFiles(files)

\* the targets the last call wrote to
TargetsWritten ==
    (IF stdout # <<>> THEN {"stdout"} ELSE {})
        \cup (IF stderr # <<>> THEN {"stderr"} ELSE {})
        \cup {i \in DOMAIN files : files[i].lines # <<>>}

NothingWritten == TargetsWritten = {}

\* the sign of a level in a log entry
SignOf(level) == CASE level = DEBUG -> "//" [] level = INFO -> "::" [] level = ERROR -> "##"

\* out holds the entry of the last call of log
HoldsLogged(out) ==
    \E i \in DOMAIN out :
        /\ out[i].kind = "entry"
        /\ out[i].message = logged.message
        /\ out[i].prefix.sign = SignOf(logged.level)

\* the entry of the last call of log is somewhere
LoggedSomewhere ==
    \/ HoldsLogged(stdout)
    \/ HoldsLogged(stderr)
    \/ \E i \in DOMAIN files : HoldsLogged(files[i].lines)

\* C23: a call of log with a level below the filter level writes nothing to
\* stdout, stderr or a logfile and leaves the progress bar and what is
\* drawn of it as they are; a call with a level at or above the filter level
\* writes one entry, that of its message, and writes to one target only.
\* A DEBUG message is dropped when the last init call was init or
\* init_colorless and written when it was init_debug or init_file.
C23_FilteredOrWrittenOnce ==
    /\ [](pc = "log" =>
            IF logged.level < filterlevel
            THEN NothingWritten
            ELSE /\ EntriesWritten = 1
                 /\ LoggedSomewhere
                 /\ Cardinality(TargetsWritten) = 1)
    /\ [][(pc' = "log" /\ logged'.level < filterlevel) =>
            (progress' = progress /\ last_print_len' = last_print_len)]_vars
    /\ []((pc = "log" /\ logged.level = DEBUG /\ last_init # None) =>
            /\ last_init.call \in {"init", "init_colorless"} => NothingWritten
            /\ last_init.call \in {"init_debug", "init_file"} => EntriesWritten = 1)

\* a DEBUG message dropped after init while a progress bar is drawn
C23_Witness ==
    /\ pc = "log"
    /\ logged.level = DEBUG
    /\ last_init # None
    /\ last_init.call = "init"
    /\ progress # None
    /\ last_print_len > 0
    /\ NothingWritten

\* an INFO message written after init while a progress bar is drawn
C23_WitnessWritten ==
    /\ pc = "log"
    /\ logged.level = INFO
    /\ last_init # None
    /\ last_init.call = "init"
    /\ progress # None
    /\ HoldsLogged(stdout)

SetBy(call) ==
    CASE call = "init" -> <<"NORMAL", INFO>>
      [] call = "init_debug" -> <<"NORMAL", DEBUG>>
      [] call = "init_colorless" -> <<"NONE", INFO>>
      [] call = "init_file" -> <<"EXTENSIVE", DEBUG>>

C28_WitnessClosed ==
    /\ pc = "init"
    /\ Len(files) = 1
    /\ ~files[1].open
    /\ logfile = None
    /\ mode = "NORMAL"
    /\ filterlevel = INFO

====
